---- MODULE Spec2Model ----
(***************************************************************************)
(* The SPSA handler of fishtest (server/fishtest/spsa_handler.py): the     *)
(* request / report protocol of one tuning run, its per-run lock, the      *)
(* flip codec and signature, and the per-parameter update rules.           *)
(*                                                                         *)
(* Python floats are modelled as fixed-point integers: the float x is the  *)
(* integer x * SCALE, products and quotients are rescaled and truncated    *)
(* toward zero.  The thresholds 1e-12 and 1e-16 of the code lie below the  *)
(* resolution and become one unit (ULP) and zero.                          *)
(***************************************************************************)
EXTENDS Integers, Sequences, FiniteSets, TLC

\* ------------------------------------------------------------------ bounds

\* A report is let in by the model only while spsa["iter"] < MaxIter.
MaxIter == 2

\* Fixed-point resolution: the float 1.0 is the integer SCALE.
SCALE == 100

\* ------------------------------------------------------- fixed-point floats

Abs(a) == IF a < 0 THEN -a ELSE a

\* a / b truncated toward zero (b # 0).
Quot(a, b) ==
    IF (a >= 0) = (b > 0) THEN Abs(a) \div Abs(b) ELSE -(Abs(a) \div Abs(b))

\* float product and quotient
FMul(a, b) == Quot(a * b, SCALE)
FDiv(a, b) == Quot(a * SCALE, b)

\* x ** n for an integer exponent n >= 0
RECURSIVE FPow(_, _)
FPow(x, n) == IF n = 0 THEN SCALE ELSE FMul(x, FPow(x, n - 1))

\* x ** 0.5: the largest r with r*r <= x*SCALE
RECURSIVE SqrtSearch(_, _, _)
SqrtSearch(t, lo, hi) ==
    IF lo >= hi THEN lo
    ELSE LET mid == (lo + hi + 1) \div 2
         IN  IF mid * mid <= t THEN SqrtSearch(t, mid, hi)
             ELSE SqrtSearch(t, lo, mid - 1)

\* (46340 is the largest integer whose square fits the checker's integers)
FSqrt(x) ==
    LET t == x * SCALE
    IN  SqrtSearch(t, 0, IF t < 46340 THEN t ELSE 46340)

\* int -> float
ToFloat(n) == n * SCALE

\* ------------------------------------------------------------ flip codec

\* zlib.crc32: reflected CRC-32, polynomial 0xEDB88320, initial value and
\* final xor 0xFFFFFFFF.  A uint32 is the pair <<high 16 bits, low 16 bits>>.
CrcPolyHi == 60856
CrcPolyLo == 33568
CrcMask16 == 65535

RECURSIVE BitXor(_, _)
BitXor(a, b) ==
    IF a = 0 THEN b
    ELSE IF b = 0 THEN a
    ELSE ((a + b) % 2) + 2 * BitXor(a \div 2, b \div 2)

Xor32(x, y) == <<BitXor(x[1], y[1]), BitXor(x[2], y[2])>>

\* x >> 1
Shr32(x) == <<x[1] \div 2, (x[2] \div 2) + 32768 * (x[1] % 2)>>

RECURSIVE CrcShift(_, _)
CrcShift(crc, k) ==
    IF k = 0 THEN crc
    ELSE CrcShift(IF crc[2] % 2 = 1
                  THEN Xor32(Shr32(crc), <<CrcPolyHi, CrcPolyLo>>)
                  ELSE Shr32(crc), k - 1)

RECURSIVE CrcBytes(_, _)
CrcBytes(crc, bytes) ==
    IF bytes = << >> THEN crc
    ELSE CrcBytes(CrcShift(Xor32(crc, <<0, Head(bytes)>>), 8), Tail(bytes))

crc32(bytes) ==
    Xor32(CrcBytes(<<CrcMask16, CrcMask16>>, bytes), <<CrcMask16, CrcMask16>>)

\* the value of the bit sequence bits (most significant first)
RECURSIVE BitsValue(_)
BitsValue(bits) ==
    IF bits = << >> THEN 0
    ELSE 2 * BitsValue(SubSeq(bits, 1, Len(bits) - 1)) + bits[Len(bits)]

\* bit i (1 = most significant) of the byte b
ByteBit(b, i) == (b \div (2 ^ (8 - i))) % 2

\* np.packbits(np.array(flips) == 1).tobytes(): one bit per flip, 1 for +1 and
\* 0 for -1, most significant bit first, the last byte padded with zero bits.
_pack_flips(flips) ==
    IF flips = << >> THEN << >>
    ELSE LET n == (Len(flips) + 7) \div 8
             bit(i) == IF i <= Len(flips) /\ flips[i] = 1 THEN 1 ELSE 0
         IN  [k \in 1..n |-> BitsValue([j \in 1..8 |-> bit(8 * (k - 1) + j)])]

\* (a variant of _unpack_flips that does not slice to length)
_unpack_flips_unsliced(packed_flips, length) ==
    [i \in 1..(8 * Len(packed_flips)) |->
        IF ByteBit(packed_flips[((i - 1) \div 8) + 1], ((i - 1) % 8) + 1) = 1
        THEN 1 ELSE -1]

\* np.where(np.unpackbits(...), 1, -1)[:length]
_unpack_flips(packed_flips, length) ==
    IF packed_flips = << >> THEN << >>
    ELSE LET nbits == 8 * Len(packed_flips)
             m == IF length < nbits THEN length ELSE nbits
         IN  [i \in 1..m |->
                 IF ByteBit(packed_flips[((i - 1) \div 8) + 1],
                            ((i - 1) % 8) + 1) = 1
                 THEN 1 ELSE -1]

\* ------------------------------------------------------- program constants

\* One unit of the fixed-point grid: the floats 1e-12 (mu2 floor) and 1e-6
\* (damping floor) lie below the resolution.
ULP == 1

\* Python's None is the empty sequence; a float x that may be None is <<x>>.
NoneVal == << >>
Some(x) == <<x>>

\* A local name: value is computed first (the test needs it), once, and
\* bound to the parameter of Body.
With(value, Body(_)) == IF value = value THEN Body(value) ELSE Body(value)

\* ------------------------------------------------- shared helpers (floats)

Clamp(x, pmin, pmax) == IF x < pmin THEN pmin ELSE IF x > pmax THEN pmax ELSE x

\* (a variant of _sf_weighting that subtracts the report's weight)
_sf_weighting_subtracting(spsa_, N, lr) ==
    LET report_weight == lr * N
        weight_sum_prev == spsa_.sf_weight_sum
        weight_sum_curr == weight_sum_prev - report_weight
    IN  [weight_sum_prev |-> weight_sum_prev,
         weight_sum_curr |-> weight_sum_curr,
         a_k |-> IF weight_sum_curr > 0
                 THEN FDiv(report_weight, weight_sum_curr) ELSE SCALE]

\* Returns the new spsa["sf_weight_sum"] and a_k.
_sf_weighting(spsa_, N, lr) ==
    LET base_weight == lr
        report_weight == base_weight * N
        weight_sum_prev == spsa_.sf_weight_sum
        weight_sum_curr == weight_sum_prev + report_weight
    IN  [weight_sum_prev |-> weight_sum_prev,
         weight_sum_curr |-> weight_sum_curr,
         a_k |-> IF weight_sum_curr > 0
                 THEN FDiv(report_weight, weight_sum_curr) ELSE SCALE]

_reconstruct_x_prev_clamped(theta_prev, z_prev, beta1, pmin, pmax) ==
    IF beta1 = 0 THEN NoneVal
    ELSE Some(Clamp(FDiv(theta_prev - FMul(SCALE - beta1, z_prev), beta1),
                    pmin, pmax))

\* (a variant of _blend_theta_clamped that does not clamp)
_blend_theta_unclamped(z_new, x_new, beta1, pmin, pmax) ==
    IF beta1 = 0 THEN z_new
    ELSE FMul(SCALE - beta1, z_new) + FMul(beta1, x_new)

_blend_theta_clamped(z_new, x_new, beta1, pmin, pmax) ==
    LET theta_unclamped ==
            IF beta1 = 0 THEN z_new
            ELSE FMul(SCALE - beta1, z_new) + FMul(beta1, x_new)
    IN  Clamp(theta_unclamped, pmin, pmax)

_history_show_val(beta1, x_new, theta_new) ==
    IF beta1 # 0 /\ beta1 > 0 THEN x_new ELSE theta_new

\* ------------------------------------------------------------ Adam helpers

_adam_update_v_and_denom(v, beta2, N, g_sq_mean, micro_steps, eps) ==
    LET beta2_pow_N == FPow(beta2, N)
        v_new == IF beta2 < SCALE
                 THEN FMul(beta2_pow_N, v) + FMul(SCALE - beta2_pow_N, g_sq_mean)
                 ELSE v
        bc_denom == SCALE - FPow(beta2, micro_steps)
        v_hat == IF beta2 < SCALE /\ bc_denom > 0
                 THEN FDiv(v_new, bc_denom) ELSE v_new
    IN  [v_new |-> v_new, denom |-> FSqrt(v_hat) + eps]

\* beta2 ** (0.5 * N) is computed as (beta2 ** 0.5) ** N.
_adam_delta_total_step(lr, c, result, flip, denom, N, beta2) ==
    LET step_phi == FDiv(lr * result * flip, denom)
        sqrt_b2 == FSqrt(beta2)
        k0 == IF Abs(SCALE - sqrt_b2) > 0
              THEN LET num == SCALE - FPow(sqrt_b2, N)
                       den == N * (SCALE - sqrt_b2)
                   IN  IF den # 0 THEN FDiv(num, den) ELSE SCALE
              ELSE SCALE - FMul((N - 1) * Quot(SCALE, 4), SCALE - beta2)
        k == IF 0 < k0 /\ k0 <= SCALE THEN k0
             ELSE IF k0 > SCALE THEN SCALE ELSE ULP
    IN  IF N > 1 /\ 0 < beta2 /\ beta2 < SCALE
        THEN FMul(FMul(step_phi, k), c)
        ELSE FMul(step_phi, c)

_adam_x_new_clamped(a_k, x_prev, z_new, pmin, pmax) ==
    Clamp(FMul(SCALE - a_k, x_prev) + FMul(a_k, z_new), pmin, pmax)

\* ---------------------------------------------------- online mu2 estimator

\* The upper clamp 4.0 of the estimate.
Mu2Max == 4

\* (a variant that returns the estimate as computed)
Mu2Unclamped(mu2) == mu2

\* if mu2 < 1e-12: mu2 = 1e-12 elif mu2 > 4.0: mu2 = 4.0
Mu2Clamp(mu2) == Clamp(mu2, ULP, Mu2Max * SCALE)

_mu2_hat(spsa_) ==
    LET reports == spsa_.mu2_reports
        sum_N == spsa_.mu2_sum_N
        sum_s == spsa_.mu2_sum_s
        sum_s2_over_N == spsa_.mu2_sum_s2_over_N
    IN  IF reports <= 0 \/ sum_N <= 0 THEN spsa_.mu2_init
        ELSE LET mu == FDiv(sum_s, sum_N)
                 E_s2_over_N == FDiv(sum_s2_over_N, reports)
                 E_N == FDiv(sum_N, reports)
                 sigma2_raw == E_s2_over_N - FMul(FMul(mu, mu), E_N)
                 sigma2 == IF sigma2_raw < 0 THEN 0 ELSE sigma2_raw
                 mu2 == FMul(mu, mu) + sigma2
             IN  Mu2Clamp(mu2)

_mu2_update(spsa_, N, s) ==
    [spsa_ EXCEPT !.mu2_reports = @ + SCALE,
                  !.mu2_sum_N = @ + ToFloat(N),
                  !.mu2_sum_s = @ + ToFloat(s),
                  !.mu2_sum_s2_over_N = @ + FDiv(ToFloat(s * s), ToFloat(N))]

\* --------------------------------------------------- perturbation generator

Min(a, b) == IF a < b THEN a ELSE b
Max(a, b) == IF a > b THEN a ELSE b

_param_clip(param, increment) ==
    Min(Max(param.theta + increment, param.min), param.max)

\* flips[i] is the value random.choice((-1, 1)) returns for parameter i.
\* spsa["gamma"] and spsa["alpha"] are integer exponents in the model.
_generate_data(spsa_, iter, flips) ==
    LET iter_local == iter + 1
        c(param) == IF "gamma" \in DOMAIN spsa_
                    THEN FDiv(param.c, FPow(ToFloat(iter_local), spsa_.gamma))
                    ELSE param.c
        R(param) == IF "alpha" \in DOMAIN spsa_ /\ "A" \in DOMAIN spsa_
                    THEN FDiv(FDiv(param.a,
                                   FPow(ToFloat(spsa_.A + iter_local), spsa_.alpha)),
                              FMul(c(param), c(param)))
                    ELSE 0
    IN  [w_params |->
            [i \in DOMAIN spsa_.params |->
                [name |-> spsa_.params[i].name,
                 value |-> _param_clip(spsa_.params[i], c(spsa_.params[i]) * flips[i]),
                 R |-> R(spsa_.params[i]),
                 c |-> c(spsa_.params[i]),
                 flip |-> flips[i]]],
         b_params |->
            [i \in DOMAIN spsa_.params |->
                [name |-> spsa_.params[i].name,
                 value |-> _param_clip(spsa_.params[i], -c(spsa_.params[i]) * flips[i])]]]

\* ------------------------------------------------------ per-parameter rules

\* Returns the updated parameter and the display value; x_prev and x_new are
\* the surrogates the update computed (None when it computes none).
_classic_param_update(param, w_param, result) ==
    LET theta == Min(Max(param.theta
                         + FMul(w_param.R, w_param.c) * result * w_param.flip,
                         param.min), param.max)
    IN  [param |-> [param EXCEPT !.theta = theta],
         show_val |-> theta, x_prev |-> NoneVal, x_new |-> NoneVal]

_schedule_free_adam_param_update(param, w_param, result, N, lr, beta1, beta2, eps, micro_steps, a_k, g2_mean) ==
    LET c == w_param.c
        flip == w_param.flip
        z_prev == param.z
    IN  With(_adam_update_v_and_denom(param.v, beta2, N, g2_mean, micro_steps,
                                      eps),
             LAMBDA vd :
        With(z_prev + _adam_delta_total_step(lr, c, result, flip, vd.denom, N,
                                             beta2),
             LAMBDA z_new :
        With(_reconstruct_x_prev_clamped(param.theta, z_prev, beta1,
                                         param.min, param.max),
             LAMBDA x_prev :
        With(IF beta1 = 0 THEN z_new
             ELSE _adam_x_new_clamped(a_k, x_prev[1], z_new,
                                      param.min, param.max),
             LAMBDA x_new :
        With(_blend_theta_clamped(z_new, x_new, beta1, param.min, param.max),
             LAMBDA theta_new :
        [param |-> [param EXCEPT !.z = z_new, !.theta = theta_new,
                                 !.v = vd.v_new],
         show_val |-> _history_show_val(beta1, x_new, theta_new),
         x_prev |-> x_prev, x_new |-> Some(x_new)])))))

\* ------------------------------------------------------------------ state

Threads == {"w1", "w2"}
Tasks == {1, 2}
NoThread == "none"

VARIABLES
    spsa,        \* run["args"]["spsa"]
    tasks,       \* run["tasks"]: task id -> task document
    has_buffer,  \* whether the handler has the attribute self.buffer
    run,         \* run["finished"] and run["deleted"]
    users,       \* the users collection of the database and the lookup cache
    lock,        \* the holder of active_run_lock(run_id), or NoThread
    pc,          \* each request thread's position
    call,        \* each request thread's arguments and locals
    issuance,    \* per task, since a request last stored a perturbation on it:
                 \* whether a report ran, the reports that advanced iter and
                 \* those that updated the parameters; and whether a report
                 \* was rejected since a request last succeeded on it
    last         \* the step just taken by a call's body, with its outcome

vars == <<spsa, tasks, has_buffer, run, users, lock, pc, call, issuance, last>>

\* ------------------------------------------------------------ run creation

\* views.py: data["num_games"] of the run.
num_games_run == 8

\* parse_spsa_params: one parameter of a run submitted by the form.
parse_spsa_param(name, start, pmin, pmax, c_end, r_end, spsa_) ==
    LET a_end == FMul(r_end, FMul(c_end, c_end))
    IN  [name |-> name, min |-> pmin, max |-> pmax,
         c |-> FMul(c_end, FPow(ToFloat(spsa_.num_iter), spsa_.gamma)),
         a |-> FMul(a_end, FPow(ToFloat(spsa_.A + spsa_.num_iter), spsa_.alpha)),
         theta |-> start]

\* The spsa document the submission form creates (validate_form).
FormSpsa ==
    LET base == [A |-> 0, alpha |-> 1, gamma |-> 1, iter |-> 0,
                 num_iter |-> num_games_run \div 2]
    IN  [A |-> base.A, alpha |-> base.alpha, gamma |-> base.gamma,
         iter |-> base.iter, num_iter |-> base.num_iter,
         params |->
            <<parse_spsa_param("p1", 0, -(3 * SCALE) \div 2, (3 * SCALE) \div 2,
                               SCALE \div 4, 4 * SCALE, base),
              parse_spsa_param("p2", SCALE \div 2, -SCALE, SCALE,
                               SCALE \div 4, 4 * SCALE, base)>>]

\* The schedule-free keys of a run document the handler reads.
SfKeys(beta1) ==
    [sf_lr |-> SCALE \div 2, sf_beta1 |-> beta1, sf_beta2 |-> SCALE \div 4,
     sf_eps |-> ULP, sf_weight_sum |-> 0,
     mu2_init |-> SCALE, mu2_reports |-> 0, mu2_sum_N |-> 0,
     mu2_sum_s |-> 0, mu2_sum_s2_over_N |-> 0]

\* A run with the legacy parameters (no z) whose document carries the
\* schedule-free keys.
ClassicSpsa == FormSpsa @@ SfKeys(SCALE \div 2)

\* A schedule-free run: fixed c per parameter, fast iterate z and second
\* moment v per parameter.
SfSpsa(beta1) ==
    [iter |-> 0,
     params |->
        <<[name |-> "p1", min |-> -SCALE, max |-> SCALE, c |-> SCALE,
           theta |-> 0, z |-> 0, v |-> 0],
          [name |-> "p2", min |-> -SCALE, max |-> SCALE, c |-> SCALE \div 2,
           theta |-> SCALE \div 2, z |-> SCALE \div 2, v |-> 0]>>]
    @@ SfKeys(beta1)

InitialSpsa == {FormSpsa, ClassicSpsa, SfSpsa(0), SfSpsa(SCALE \div 2)}

\* --------------------------------------------------------------- the inputs

\* The vectors of random.choice((-1, 1)) draws a request explores.
FlipVectors == {<<1, -1>>, <<-1, 1>>}

ZeroSig == <<0, 0>>

\* spsa_results["num_games"], and <<spsa_results["wins"], spsa_results["losses"]>>
NumGamesChoices == {0, 1, 2, 4}
Outcomes == {<<0, 2>>}

\* zlib.crc32 on the packed flip vectors of the model, computed once.
PackedFlipVectors == {_pack_flips(f) : f \in FlipVectors}
Crc32Table == [b \in PackedFlipVectors |-> crc32(b)]
zlib_crc32(packed_flips) == Crc32Table[packed_flips]

\* The signatures a worker may report: none (spsa_results.get("sig", 0) is 0),
\* or one that a request handed out and that is still stored on some task.
SigChoices ==
    {ZeroSig} \cup {zlib_crc32(tasks[t].spsa_params.packed_flips) :
                       t \in {u \in Tasks : "spsa_params" \in DOMAIN tasks[u]}}

NoCall == [op |-> "none"]
NoEvent == [op |-> "none"]

\* (a variant of d[k] = v that keeps the value of a key that is present)
SetKeyIfAbsent(d, k, v) ==
    [x \in DOMAIN d \cup {k} |-> IF x \in DOMAIN d THEN d[x] ELSE v]

\* dict helpers: del d[k], d[k] = v
DelKey(d, k) == [x \in DOMAIN d \ {k} |-> d[x]]
SetKey(d, k, v) == [x \in DOMAIN d \cup {k} |-> IF x = k THEN v ELSE d[x]]

NoReports == [reported |-> FALSE, applied |-> 0, updated |-> 0, rejected |-> FALSE]

\* --------------------------------------------------------------------- Init

\* The flags of a run that is neither finished nor deleted.
NewRun == [finished |-> FALSE, deleted |-> FALSE]

\* The users collection before any user has signed up: the documents in
\* insertion order, the next _id, and UserDb.cache (username -> document).
NoUsers == [docs |-> << >>, next_id |-> 1, cache |-> << >>]

\* rundb.is_primary_instance() of the instance the handler is built on.
is_primary_instance == TRUE

\* SPSAHandler.__init__: self.buffer exists only on the primary instance.
Init ==
    /\ spsa \in InitialSpsa
    /\ tasks = [t \in Tasks |-> [active |-> TRUE]]
    /\ has_buffer = is_primary_instance
    /\ run = NewRun
    /\ users = NoUsers
    /\ lock = NoThread
    /\ pc = [th \in Threads |-> "idle"]
    /\ call = [th \in Threads |-> NoCall]
    /\ issuance = [t \in Tasks |-> NoReports]
    /\ last = NoEvent

\* ------------------------------------------------------------ the run lock

\* rundb.active_run_lock(run_id): a mutual-exclusion lock per run.
active_run_lock_free == lock = NoThread

\* (a variant that runs the body without taking the lock)
EnterWithoutRunLock(th) == lock' = lock

\* "with self.active_run_lock(run_id):" on entry
EnterRunLock(th) == active_run_lock_free /\ lock' = th

\* ... and on exit, by return or by exception
ExitRunLock(th) == lock' = IF lock = th THEN NoThread ELSE lock

\* What a step of thread th's call did: read holds the entries of
\* spsa_results read so far, locals what the update computed (for a request
\* that stored a perturbation: the one it overwrote, if any).
Event(th, outcome, raised, ret, buffer_calls, read, locals) ==
    [op |-> call[th].op, task |-> call[th].task,
     outcome |-> outcome, raised |-> raised, ret |-> ret,
     buffer_calls |-> buffer_calls,
     buffer_under_lock |-> buffer_calls > 0 /\ lock = th,
     read |-> read, locals |-> locals]

\* The call of thread th ends: it returned ret, or raised.
EndCall(th, outcome, raised, ret, buffer_calls, read, locals) ==
    /\ ExitRunLock(th)
    /\ pc' = [pc EXCEPT ![th] = "idle"]
    /\ call' = [call EXCEPT ![th] = NoCall]
    /\ last' = Event(th, outcome, raised, ret, buffer_calls, read, locals)

\* ------------------------------------------------------------ the requests

\* request_spsa_data(run_id, task_id): takes the run's lock, then runs
\* __request_spsa_data.
request_spsa_data(th, t) ==
    /\ pc[th] = "idle"
    /\ EnterRunLock(th)
    /\ pc' = [pc EXCEPT ![th] = "request_body"]
    /\ call' = [call EXCEPT ![th] = [op |-> "request", task |-> t]]
    /\ last' = NoEvent
    /\ UNCHANGED <<spsa, tasks, has_buffer, run, users, issuance>>

\* update_spsa_data(run_id, task_id, spsa_results): takes the run's lock, then
\* runs __update_spsa_data.  (The model lets a report in only while iter is
\* below MaxIter; after_finish notes whether the call was made after the run
\* was marked finished or deleted.)
update_spsa_data(th, t) ==
    /\ pc[th] = "idle"
    /\ spsa.iter < MaxIter
    /\ EnterRunLock(th)
    /\ pc' = [pc EXCEPT ![th] = "update_body"]
    /\ call' = [call EXCEPT ![th] =
                   [op |-> "update", task |-> t,
                    after_finish |-> run.finished \/ run.deleted]]
    /\ last' = NoEvent
    /\ UNCHANGED <<spsa, tasks, has_buffer, run, users, issuance>>

\* (a variant that skips the check of task["active"])
TaskAssumedActive(task) == TRUE

\* task["active"]
TaskActive(task) == task.active

\* (a variant that stores the 1-based iter_local)
IssuedParamsIterLocal(spsa_, packed_flips) ==
    [iter |-> spsa_.iter + 1, packed_flips |-> packed_flips]

\* task["spsa_params"] = {"iter": spsa["iter"], "packed_flips": packed_flips}
IssuedParams(spsa_, packed_flips) ==
    [iter |-> spsa_.iter, packed_flips |-> packed_flips]

\* __request_spsa_data
__request_spsa_data(th) ==
    /\ pc[th] = "request_body"
    /\ UNCHANGED <<has_buffer, run, users>>
    /\ LET t == call[th].task
       IN  IF ~TaskActive(tasks[t])
           THEN /\ UNCHANGED <<spsa, tasks, issuance>>
                /\ EndCall(th, "not_active", "none", [task_alive |-> FALSE],
                           0, NoneVal, NoneVal)
           ELSE \E flips \in FlipVectors :
                  LET result == _generate_data(spsa, spsa.iter, flips)
                      packed_flips ==
                          _pack_flips([i \in DOMAIN result.w_params |->
                                          result.w_params[i].flip])
                      sig == zlib_crc32(packed_flips)
                  IN  /\ tasks' = [tasks EXCEPT ![t] =
                                      SetKey(@, "spsa_params",
                                             IssuedParams(spsa, packed_flips))]
                      /\ issuance' = [issuance EXCEPT ![t] =
                             [NoReports EXCEPT !.rejected =
                                 ~has_buffer /\ issuance[t].rejected]]
                      /\ UNCHANGED spsa
                      /\ IF has_buffer
                         THEN EndCall(th, "issued", "none",
                                      [w_params |-> result.w_params,
                                       b_params |-> result.b_params,
                                       sig |-> sig, task_alive |-> TRUE],
                                      1, NoneVal,
                                      IF "spsa_params" \in DOMAIN tasks[t]
                                      THEN Some(tasks[t].spsa_params)
                                      ELSE NoneVal)
                         ELSE EndCall(th, "raised", "AttributeError", NoneVal,
                                      0, NoneVal, NoneVal)

\* (a variant that leaves the stored perturbation on the task)
KeepSpsaParams(task) == task

\* del task["spsa_params"]
DelSpsaParams(task) == DelKey(task, "spsa_params")

\* (a variant that accepts any signature)
SignatureIgnored(sig, packed_flips) == TRUE

\* sig == zlib.crc32(task_spsa_params["packed_flips"])
SignatureMatches(sig, packed_flips) == sig = zlib_crc32(packed_flips)

\* (a variant that rounds the pair count up)
PairCountRoundedUp(num_games) == (num_games + 1) \div 2

\* spsa_results["num_games"] // 2
PairCount(num_games) == num_games \div 2

\* (a variant that counts games instead of game pairs)
AdvanceIterByGames(spsa_, N) == [spsa_ EXCEPT !.iter = @ + 2 * N]

\* spsa["iter"] += N
AdvanceIter(spsa_, N) == [spsa_ EXCEPT !.iter = @ + N]

\* (a variant that regenerates c and R from the run's current iter)
RegenerateFromRunIter(spsa_, task_spsa_params) ==
    LET drawn == [i \in DOMAIN spsa_.params |-> 1]
        w_params == _generate_data(spsa_, spsa_.iter, drawn).w_params
        flips == _unpack_flips(task_spsa_params.packed_flips, Len(w_params))
    IN  [i \in DOMAIN w_params |->
            [name |-> w_params[i].name, R |-> w_params[i].R,
             c |-> w_params[i].c, flip |-> flips[i]]]

\* The perturbation metadata regenerated from the stored iter: c and R of
\* _generate_data, the stored flips in place of the drawn ones, no value.
Regenerate(spsa_, task_spsa_params) ==
    LET drawn == [i \in DOMAIN spsa_.params |-> 1]
        w_params == _generate_data(spsa_, task_spsa_params.iter, drawn).w_params
        flips == _unpack_flips(task_spsa_params.packed_flips, Len(w_params))
    IN  [i \in DOMAIN w_params |->
            [name |-> w_params[i].name, R |-> w_params[i].R,
             c |-> w_params[i].c, flip |-> flips[i]]]

\* __update_spsa_data up to "spsa["iter"] += N".  The entries of spsa_results
\* are drawn where the code reads them.
__update_spsa_data(th) ==
    /\ pc[th] = "update_body"
    /\ UNCHANGED <<has_buffer, run, users>>
    /\ LET t == call[th].task
       IN  IF "spsa_params" \notin DOMAIN tasks[t]
           THEN /\ UNCHANGED <<spsa, tasks>>
                /\ issuance' = [issuance EXCEPT ![t].reported = TRUE]
                /\ EndCall(th, "no_spsa_params", "none", NoneVal, 0, NoneVal,
                           NoneVal)
           ELSE \E sig \in SigChoices :
                  LET task_spsa_params == tasks[t].spsa_params
                  IN  /\ tasks' = [tasks EXCEPT ![t] = DelSpsaParams(@)]
                      /\ IF ~SignatureMatches(sig, task_spsa_params.packed_flips)
                         THEN /\ UNCHANGED spsa
                              /\ issuance' = [issuance EXCEPT
                                                 ![t].reported = TRUE,
                                                 ![t].rejected = TRUE]
                              /\ EndCall(th, "sig_mismatch", "none", NoneVal, 0,
                                         [sig |-> sig], NoneVal)
                         ELSE \E num_games \in NumGamesChoices, wl \in Outcomes :
                                LET result == wl[1] - wl[2]
                                    N == PairCount(num_games)
                                    read == [sig |-> sig, num_games |-> num_games]
                                IN  IF N <= 0
                                    THEN /\ UNCHANGED spsa
                                         /\ issuance' = [issuance EXCEPT
                                                            ![t].reported = TRUE,
                                                            ![t].rejected = TRUE]
                                         /\ EndCall(th, "N_not_positive", "none",
                                                    NoneVal, 0, read, NoneVal)
                                    ELSE /\ spsa' = AdvanceIter(spsa, N)
                                         /\ issuance' = [issuance EXCEPT
                                                            ![t].reported = TRUE,
                                                            ![t].applied = @ + 1]
                                         /\ pc' = [pc EXCEPT ![th] = "update_apply"]
                                         /\ call' = [call EXCEPT ![th] =
                                               [op |-> "update", task |-> t,
                                                after_finish |->
                                                    call[th].after_finish,
                                                read |-> read,
                                                w_params |-> Regenerate(
                                                    spsa, task_spsa_params),
                                                result |-> result, N |-> N]]
                                         /\ last' = Event(th, "advanced", "none",
                                                           NoneVal, 0, read,
                                                           NoneVal)
                                         /\ UNCHANGED lock

\* The parameter loop: the classic rule for a parameter without z, the
\* schedule-free Adam rule otherwise.
UpdateParams(spsa_, w_params, result, N, micro_steps, a_k, g2_mean) ==
    [i \in DOMAIN spsa_.params |->
        IF "z" \notin DOMAIN spsa_.params[i]
        THEN _classic_param_update(spsa_.params[i], w_params[i], result)
        ELSE _schedule_free_adam_param_update(
                 spsa_.params[i], w_params[i], result, N, spsa_.sf_lr,
                 spsa_.sf_beta1, spsa_.sf_beta2, spsa_.sf_eps, micro_steps,
                 a_k, g2_mean)]

\* (a variant that reads the estimate after the report's own _mu2_update)
PostBlockEstimate(spsa_, N, result) == _mu2_hat(_mu2_update(spsa_, N, result))

\* g2_mean = _mu2_hat(spsa), read before the parameter loop and before
\* _mu2_update(spsa, N, result).
PreBlockEstimate(spsa_, N, result) == _mu2_hat(spsa_)

\* __update_spsa_data from "lr = spsa["sf_lr"]" to _mu2_update, on a run that
\* has the schedule-free keys: the new spsa, the list show_vals, and the
\* locals g2_mean and, per parameter, the surrogates x_prev and x_new.
ApplyReport(spsa_, w_params, result, N) ==
    With(_sf_weighting(spsa_, N, spsa_.sf_lr), LAMBDA w :
    With([spsa_ EXCEPT !.sf_weight_sum = w.weight_sum_curr], LAMBDA spsa1 :
    With(PreBlockEstimate(spsa1, N, result), LAMBDA g2_mean :
    With(UpdateParams(spsa1, w_params, result, N, spsa_.iter, w.a_k, g2_mean),
         LAMBDA upd :
    [spsa |-> _mu2_update(
                  [spsa1 EXCEPT !.params = [i \in DOMAIN upd |-> upd[i].param]],
                  N, result),
     show_vals |-> [i \in DOMAIN upd |-> upd[i].show_val],
     locals |-> [g2_mean |-> g2_mean,
                 x |-> [i \in DOMAIN upd |->
                           [x_prev |-> upd[i].x_prev,
                            x_new |-> upd[i].x_new]]]]))))

\* __update_spsa_data from "lr = spsa["sf_lr"]" on.  A run without the
\* schedule-free keys raises KeyError there; _add_to_history is no name of the
\* module (its def is nested in _generate_data, after the return), so the call
\* raises NameError and self.buffer(run) is not reached.
__update_spsa_data_apply(th) ==
    /\ pc[th] = "update_apply"
    /\ UNCHANGED <<tasks, has_buffer, run, users>>
    /\ LET t == call[th].task
           l == call[th]
       IN  IF "sf_lr" \notin DOMAIN spsa
           THEN /\ UNCHANGED <<spsa, issuance>>
                /\ EndCall(th, "raised", "KeyError", NoneVal, 0, l.read, NoneVal)
           ELSE With(ApplyReport(spsa, l.w_params, l.result, l.N), LAMBDA r :
                    /\ spsa' = r.spsa
                    /\ issuance' = [issuance EXCEPT ![t].updated = @ + 1]
                    /\ EndCall(th, "raised", "NameError", NoneVal, 0, l.read,
                               r.locals))

\* spsa["param_history"], empty while the key is absent.
param_history(spsa_) ==
    IF "param_history" \in DOMAIN spsa_ THEN spsa_.param_history ELSE << >>

\* samples of _add_to_history, as the fraction <<numerator, denominator>>.
Samples(n_params) ==
    IF n_params < 100 THEN <<100, 1>>
    ELSE IF n_params < 1000 THEN <<10000, n_params>> ELSE <<1, 1>>

\* len(spsa["param_history"]) + 1 <= spsa["iter"] / period, with
\* period = num_games / 2 / samples.
SamplingDue(spsa_, num_games) ==
    LET samples == Samples(Len(spsa_.params))
    IN  (Len(param_history(spsa_)) + 1) * num_games * samples[2]
           <= spsa_.iter * 2 * samples[1]

\* The function _add_to_history(spsa, num_games, w_params, show_vals) of lines
\* 213-239: the spsa it leaves.  (Its def statement sits in the body of
\* _generate_data after the return, so no step of the handler can call it.)
_add_to_history(spsa_, num_games, w_params, show_vals) ==
    LET summary ==
            [i \in DOMAIN spsa_.params |->
                [theta |-> show_vals[i],
                 c |-> w_params[i].c,
                 z |-> IF "z" \in DOMAIN spsa_.params[i]
                       THEN spsa_.params[i].z ELSE show_vals[i],
                 v |-> IF "v" \in DOMAIN spsa_.params[i]
                       THEN spsa_.params[i].v ELSE 0]]
    IN  SetKey(spsa_, "param_history",
               IF SamplingDue(spsa_, num_games)
               THEN Append(param_history(spsa_), summary)
               ELSE param_history(spsa_))

\* The worker of a task stops or the task ends: rundb marks it inactive.
TaskStop(t) ==
    /\ tasks[t].active
    /\ tasks' = [tasks EXCEPT ![t].active = FALSE]
    /\ last' = NoEvent
    /\ UNCHANGED <<spsa, has_buffer, run, users, lock, pc, call, issuance>>

Next ==
    \/ \E th \in Threads, t \in Tasks : request_spsa_data(th, t)
    \/ \E th \in Threads, t \in Tasks : update_spsa_data(th, t)
    \/ \E th \in Threads : __request_spsa_data(th)
    \/ \E th \in Threads : __update_spsa_data(th)
    \/ \E th \in Threads : __update_spsa_data_apply(th)
    \/ \E t \in Tasks : TaskStop(t)

Spec == Init /\ [][Next]_vars

\* ------------------------------------------------------- deletion of a run

\* rundb.set_inactive_run(run): the run is finished and none of its tasks is
\* active any more.
set_inactive_run(tasks_) ==
    [finished |-> TRUE,
     tasks |-> [t \in DOMAIN tasks_ |-> [tasks_[t] EXCEPT !.active = FALSE]]]

\* views.tests_delete on the run: set_inactive_run(run), then
\* run["deleted"] = True.  The view does not take the run's lock.
tests_delete ==
    /\ ~run.deleted
    /\ LET r == set_inactive_run(tasks)
       IN  /\ tasks' = r.tasks
           /\ run' = [finished |-> r.finished, deleted |-> TRUE]
    /\ last' = NoEvent
    /\ UNCHANGED <<spsa, has_buffer, users, lock, pc, call,
                    issuance>>

NextDeleted == Next \/ tests_delete

\* Requests and reports on a run that a user may delete at any time.
SpecDeleted == Init /\ [][NextDeleted]_vars

\* ------------------------------------------------------ display of a run

\* get_spsa_data(run_id), called by views.tests_view: returns
\* run["args"]["spsa"] without taking the run's lock.
get_spsa_data ==
    /\ last' = [op |-> "get_spsa_data", ret |-> spsa,
                holds_lock |-> FALSE]
    /\ UNCHANGED <<spsa, tasks, has_buffer, run, users, lock, pc, call,
                    issuance>>

NextDisplay == Next \/ get_spsa_data

\* Requests and reports on a run whose page is displayed at any time.
SpecDisplay == Init /\ [][NextDisplay]_vars

\* ------------------------------------------------ a non-primary instance

\* SPSAHandler.__init__ where rundb.is_primary_instance() is false:
\* self.buffer is not set.
InitReplica ==
    /\ spsa \in InitialSpsa
    /\ tasks = [t \in Tasks |-> [active |-> TRUE]]
    /\ has_buffer = FALSE
    /\ run = NewRun
    /\ users = NoUsers
    /\ lock = NoThread
    /\ pc = [th \in Threads |-> "idle"]
    /\ call = [th \in Threads |-> NoCall]
    /\ issuance = [t \in Tasks |-> NoReports]
    /\ last = NoEvent

SpecReplica == InitReplica /\ [][Next]_vars

\* ------------------------------------------- the update rules on their own

\* The inputs of one accepted report: N, wins - losses, the stored flips.
BatchSizes == {1, 2}
SignedResults == {-3, -1, 0, 2}
AllFlipVectors == [1..2 -> {-1, 1}]

\* A run whose document carries the schedule-free keys, in any state that
\* accepted reports lead to.
InitUpdate ==
    /\ spsa \in {ClassicSpsa, SfSpsa(0), SfSpsa(SCALE \div 2)}
    /\ tasks = [t \in Tasks |-> [active |-> TRUE]]
    /\ has_buffer = is_primary_instance
    /\ run = NewRun
    /\ users = NoUsers
    /\ lock = NoThread
    /\ pc = [th \in Threads |-> "idle"]
    /\ call = [th \in Threads |-> NoCall]
    /\ issuance = [t \in Tasks |-> NoReports]
    /\ last = NoEvent

\* One accepted report, from the advance of iter to _mu2_update, for a
\* perturbation issued at iter_issued with the flips drawn then.
AcceptedReport(N, result, flips, iter_issued) ==
    /\ spsa.iter < MaxIter
    /\ LET w_params == Regenerate(spsa, [iter |-> iter_issued,
                                         packed_flips |-> _pack_flips(flips)])
           r == ApplyReport(AdvanceIter(spsa, N), w_params, result, N)
       IN  /\ spsa' = r.spsa
           /\ last' = [op |-> "update", outcome |-> "applied",
                       read |-> [N |-> N, result |-> result, flips |-> flips],
                       locals |-> r.locals]
    /\ UNCHANGED <<tasks, has_buffer, run, users, lock, pc, call, issuance>>

NextUpdate ==
    \E N \in BatchSizes, result \in SignedResults, flips \in AllFlipVectors,
       iter_issued \in {0, spsa.iter} :
       AcceptedReport(N, result, flips, iter_issued)

SpecUpdate == InitUpdate /\ [][NextUpdate]_vars

\* ------------------------------------------------- the flip codec on its own

\* The longest flip vector packed: more than one byte.
MaxFlipLen == 9

\* The variables the pure-function specifications leave alone.
RunAtRest ==
    /\ spsa = FormSpsa
    /\ tasks = [t \in Tasks |-> [active |-> TRUE]]
    /\ has_buffer = is_primary_instance
    /\ run = NewRun
    /\ users = NoUsers
    /\ lock = NoThread
    /\ pc = [th \in Threads |-> "idle"]
    /\ call = [th \in Threads |-> NoCall]
    /\ issuance = [t \in Tasks |-> NoReports]

\* flips packed by _pack_flips and unpacked again with length = len(flips)
RoundTrip(flips) ==
    LET packed_flips == _pack_flips(flips)
    IN  [op |-> "codec", flips |-> flips, packed_flips |-> packed_flips,
         unpacked |-> _unpack_flips(packed_flips, Len(flips))]

InitCodec == RunAtRest /\ last = RoundTrip(<< >>)

\* The round trip of a vector one flip longer.
PackUnpack(flip) ==
    /\ Len(last.flips) < MaxFlipLen
    /\ last' = RoundTrip(Append(last.flips, flip))
    /\ UNCHANGED <<spsa, tasks, has_buffer, run, users, lock, pc, call, issuance>>

NextCodec == \E flip \in {-1, 1} : PackUnpack(flip)

SpecCodec == InitCodec /\ [][NextCodec]_vars

\* ------------------------------------------- the moment estimator on its own

\* The estimator fed with reports (N, s): at most MaxMu2Reports of them, with
\* the batch sizes and signed results below (scenario: (10, 2) then (20, -1)).
MaxMu2Reports == 2
Mu2BatchSizes == {1, 2, 10, 20}
Mu2Results == {-40, -3, -1, 0, 2, 40}
Mu2Priors == {SCALE \div 2, SCALE}

\* What _mu2_hat returns for the accumulators of spsa_, after the report (N, s).
Estimate(spsa_, N, s) ==
    [op |-> "mu2", N |-> N, s |-> s, estimate |-> _mu2_hat(spsa_)]

InitMoment ==
    /\ spsa \in {[SfSpsa(0) EXCEPT !.mu2_init = m] : m \in Mu2Priors}
    /\ tasks = [t \in Tasks |-> [active |-> TRUE]]
    /\ has_buffer = is_primary_instance
    /\ run = NewRun
    /\ users = NoUsers
    /\ lock = NoThread
    /\ pc = [th \in Threads |-> "idle"]
    /\ call = [th \in Threads |-> NoCall]
    /\ issuance = [t \in Tasks |-> NoReports]
    /\ last = Estimate(spsa, 0, 0)

\* _mu2_update(spsa, N, s), then _mu2_hat(spsa).
Mu2Report(N, s) ==
    /\ spsa.mu2_reports < MaxMu2Reports * SCALE
    /\ spsa' = _mu2_update(spsa, N, s)
    /\ last' = Estimate(spsa', N, s)
    /\ UNCHANGED <<tasks, has_buffer, run, users, lock, pc, call, issuance>>

NextMoment == \E N \in Mu2BatchSizes, s \in Mu2Results : Mu2Report(N, s)

SpecMoment == InitMoment /\ [][NextMoment]_vars

\* ------------------------------- the simulations: exact (rational) floats

\* The simulations' floats are exact rationals <<numerator, denominator>> in
\* lowest terms with a positive denominator, so that an equality of two
\* computations is an algebraic one.
RECURSIVE Gcd(_, _)
Gcd(a, b) == IF b = 0 THEN a ELSE Gcd(b, a % b)

Rat(n, d) ==
    LET g == Gcd(Abs(n), Abs(d))
        sgn == IF d < 0 THEN -1 ELSE 1
    IN  <<sgn * (n \div g), sgn * (d \div g)>>

RInt(n) == <<n, 1>>
RAdd(x, y) ==
    LET g == Gcd(x[2], y[2])
    IN  Rat(x[1] * (y[2] \div g) + y[1] * (x[2] \div g), (x[2] \div g) * y[2])
RSub(x, y) == RAdd(x, <<-y[1], y[2]>>)
RMul(x, y) ==
    LET a == Rat(x[1], y[2])
        b == Rat(y[1], x[2])
    IN  <<a[1] * b[1], a[2] * b[2]>>
RDiv(x, y) == RMul(x, Rat(y[2], y[1]))
RPos(x) == x[1] > 0
RZero == RInt(0)
ROne == RInt(1)

RECURSIVE SumSeq(_)
SumSeq(xs) == IF xs = << >> THEN 0 ELSE Head(xs) + SumSeq(Tail(xs))

\* bias_util.build_sequence(outcomes, "const_mean"): N copies of the mean
build_sequence_const_mean(outcomes) ==
    [j \in 1..Len(outcomes) |-> Rat(SumSeq(outcomes), Len(outcomes))]

\* ---------------------------------------- bias_sf_sgd.py: schedule-free SGD

reconstruct_x_prev(theta_prev, z_prev, beta1) ==
    RDiv(RSub(theta_prev, RMul(RSub(ROne, beta1), z_prev)), beta1)

\* sf_weighting_update: the new mass and a_k
sf_weighting_update(glob, N, lr) ==
    LET report_weight == RMul(lr, RInt(N))
        sf_weight_sum == RAdd(glob.sf_weight_sum, report_weight)
    IN  [glob |-> [glob EXCEPT !.sf_weight_sum = sf_weight_sum],
         a_k |-> IF RPos(sf_weight_sum) THEN RDiv(report_weight, sf_weight_sum)
                 ELSE ROne]

\* (a variant without the triangular factor)
tri_factor_one(N) == ROne

\* tri_factor = (N + 1) / 2.0
tri_factor(N) == Rat(N + 1, 2)

\* macro_update_sgd: the closed-form batched update; glob is advanced in
\* place, the Update (x, z, theta) is returned.
macro_update_sgd(glob, param, outcomes, lr) ==
    LET N == Len(outcomes)
        result == RInt(SumSeq(outcomes))
        weight_sum_prev == glob.sf_weight_sum
        report_weight == RMul(lr, RInt(N))
        weight_sum_curr == RAdd(weight_sum_prev, report_weight)
        z_prev == param.z
        delta_total == RMul(RMul(lr, param.c), result)
        z_new == RAdd(z_prev, delta_total)
        x_new ==
            IF param.beta1 = RZero THEN z_new
            ELSE LET x_prev == reconstruct_x_prev(param.theta, z_prev,
                                                  param.beta1)
                     x_num == RAdd(RAdd(RMul(weight_sum_prev, x_prev),
                                        RMul(report_weight, z_prev)),
                                   RMul(RMul(lr, delta_total), tri_factor(N)))
                 IN  RDiv(x_num, weight_sum_curr)
        theta_new == RAdd(RMul(RSub(ROne, param.beta1), z_new),
                          RMul(param.beta1, x_new))
    IN  [glob |-> [iter_pairs |-> glob.iter_pairs + N,
                   sf_weight_sum |-> weight_sum_curr],
         upd |-> [x |-> x_new, z |-> z_new, theta |-> theta_new]]

\* The loop of micro_apply_sequence over seq_num from (glob, z, x).
RECURSIVE micro_loop(_, _, _, _, _, _)
micro_loop(glob, z, x, param0, seq_num, lr) ==
    IF seq_num = << >> THEN [z |-> z, x |-> x]
    ELSE LET w == sf_weighting_update(
                      [glob EXCEPT !.iter_pairs = @ + 1], 1, lr)
             step == RMul(RMul(lr, param0.c), Head(seq_num))
             z1 == RAdd(z, step)
             x1 == IF param0.beta1 # RZero
                   THEN RAdd(RMul(RSub(ROne, w.a_k), x), RMul(w.a_k, z1))
                   ELSE x
         IN  micro_loop(w.glob, z1, x1, param0, Tail(seq_num), lr)

\* micro_apply_sequence: the per-step update applied along seq_num, on a copy
\* of glob0.
micro_apply_sequence(glob0, param0, seq_num, lr) ==
    LET z == param0.z
        x == IF param0.beta1 = RZero THEN z
             ELSE reconstruct_x_prev(param0.theta, z, param0.beta1)
        r == micro_loop(glob0, z, x, param0, seq_num, lr)
    IN  [x |-> r.x, z |-> r.z,
         theta |-> RAdd(RMul(RSub(ROne, param0.beta1), r.z),
                        RMul(param0.beta1, r.x))]

\* The reports of a simulated schedule: at most MaxReports blocks, each of
\* one to three outcomes.
MaxReports == 2
OutcomeBlocks ==
    UNION {[1..n -> {-1, 2}] : n \in 1..3}

\* run_macro and run_micro side by side on the same schedule, from the same
\* starting state.
SgdStart(lr, beta1, c, z, theta, sf_weight_sum) ==
    LET glob == [iter_pairs |-> 0, sf_weight_sum |-> sf_weight_sum]
        param == [theta |-> theta, z |-> z, c |-> c, beta1 |-> beta1]
    IN  [op |-> "sgd", lr |-> lr, reports |-> 0, N |-> 0, result |-> 0,
         macro |-> [glob |-> glob, param |-> param],
         micro |-> [glob |-> glob, param |-> param]]

InitSgd ==
    /\ RunAtRest
    /\ \E lr \in {Rat(1, 2), ROne}, beta1 \in {RZero, Rat(1, 2)},
          z \in {RZero, ROne}, theta \in {RZero, Rat(1, 2)},
          sf_weight_sum \in {RZero, ROne} :
          last = SgdStart(lr, beta1, Rat(1, 2), z, theta, sf_weight_sum)

\* One report of the schedule: the body of run_macro's loop and the body of
\* run_micro's loop.
SgdReport(outcomes) ==
    /\ last.reports < MaxReports
    /\ LET lr == last.lr
           N == Len(outcomes)
           ma == macro_update_sgd(last.macro.glob, last.macro.param,
                                  outcomes, lr)
           mi == micro_apply_sequence(last.micro.glob, last.micro.param,
                                      build_sequence_const_mean(outcomes), lr)
           mglob == last.micro.glob
       IN  last' = [last EXCEPT
               !.reports = @ + 1,
               !.N = N,
               !.result = SumSeq(outcomes),
               !.macro = [glob |-> ma.glob,
                          param |-> [last.macro.param EXCEPT
                                        !.z = ma.upd.z,
                                        !.theta = ma.upd.theta],
                          upd |-> ma.upd],
               !.micro = [glob |-> [iter_pairs |-> mglob.iter_pairs + N,
                                    sf_weight_sum |->
                                        RAdd(mglob.sf_weight_sum,
                                             RMul(lr, RInt(N)))],
                          param |-> [last.micro.param EXCEPT
                                        !.z = mi.z, !.theta = mi.theta],
                          upd |-> mi]]
    /\ UNCHANGED <<spsa, tasks, has_buffer, run, users, lock, pc, call, issuance>>

NextSgd == \E outcomes \in OutcomeBlocks : SgdReport(outcomes)

SpecSgd == InitSgd /\ [][NextSgd]_vars

\* --------------------------------------- bias-sf-adam.py: schedule-free Adam

RLess(x, y) == RSub(x, y)[1] < 0
RMin(x, y) == IF RLess(y, x) THEN y ELSE x
RMax(x, y) == IF RLess(x, y) THEN y ELSE x

RECURSIVE RPow(_, _)
RPow(x, n) == IF n = 0 THEN ROne ELSE RMul(x, RPow(x, n - 1))

\* math.sqrt on the rationals that are squares of rationals
RECURSIVE ISqrtSearch(_, _, _)
ISqrtSearch(n, lo, hi) ==
    IF hi - lo <= 1 THEN lo
    ELSE LET mid == (lo + hi) \div 2
         IN  IF mid * mid <= n THEN ISqrtSearch(n, mid, hi)
             ELSE ISqrtSearch(n, lo, mid)
ISqrt(n) == ISqrtSearch(n, 0, IF n < 46340 THEN n + 1 ELSE 46341)
RSqrt(x) == <<ISqrt(x[1]), ISqrt(x[2])>>
IsSquare(x) == x[1] >= 0 /\ RMul(RSqrt(x), RSqrt(x)) = x

\* The floats 1e-12 and 1e-16 of the guards: smaller than every positive
\* value the schedules below produce (the least is 1/81).
Tiny == Rat(1, 1000)
FourPointZero == RInt(4)

\* adam_k: the intra-block damping k(N, beta2)
adam_k(N, beta2) ==
    IF ~(N > 1 /\ RPos(beta2) /\ RLess(beta2, ROne)) THEN ROne
    ELSE With(RSqrt(beta2), LAMBDA q :
         With(IF RLess(Tiny, RSub(ROne, q))
              THEN RDiv(RSub(ROne, RPow(q, N)),
                        RMul(RInt(N), RSub(ROne, q)))
              ELSE RSub(ROne, RMul(Rat(N - 1, 4), RSub(ROne, beta2))),
              LAMBDA k : RMax(RMin(k, ROne), Tiny)))

\* adam_v_closed_form, v_new: beta2^N * v + (1 - beta2^N) * g_sq_mean
adam_v_new(v_prev, beta2, N, g_sq_mean) ==
    RAdd(RMul(RPow(beta2, N), v_prev),
         RMul(RSub(ROne, RPow(beta2, N)), g_sq_mean))

\* the bias-corrected v_hat of adam_v_closed_form and of the per-step loop
adam_v_hat(v, beta2, micro_steps) ==
    LET bc == RSub(ROne, RPow(beta2, micro_steps))
    IN  IF RLess(Tiny, bc) THEN RDiv(v, bc) ELSE v

\* adam_v_closed_form: (v_new, denom), and v_hat whose root denom takes
adam_v_closed_form(v_prev, beta2, N, g_sq_mean, micro_steps_after, eps) ==
    With(IF RLess(beta2, ROne)
         THEN adam_v_new(v_prev, beta2, N, g_sq_mean) ELSE v_prev,
         LAMBDA v_new :
    With(IF RLess(beta2, ROne)
         THEN adam_v_hat(v_new, beta2, micro_steps_after) ELSE v_new,
         LAMBDA v_hat :
    [v_new |-> v_new, v_hat |-> v_hat, denom |-> RAdd(RSqrt(v_hat), eps)]))

\* _mu_hat and mu2_hat of the simulation, on the four aggregates
sim_mu2_hat(stats) ==
    IF ~RPos(stats.reports) THEN stats.mu2_init
    ELSE With(IF RPos(stats.sum_N) THEN RDiv(stats.sum_s, stats.sum_N)
              ELSE RZero,
              LAMBDA mu :
         LET E_s2_over_N == RDiv(stats.sum_s2_over_N, stats.reports)
             E_N == RDiv(stats.sum_N, stats.reports)
             sigma2 == RMax(RSub(E_s2_over_N, RMul(RMul(mu, mu), E_N)), RZero)
             mu2 == RAdd(RMul(mu, mu), sigma2)
         IN  RMin(RMax(mu2, Tiny), FourPointZero))

\* update_mu2_stats
update_mu2_stats(stats, N, s) ==
    [stats EXCEPT !.reports = RAdd(@, ROne),
                  !.sum_N = RAdd(@, RInt(N)),
                  !.sum_s = RAdd(@, RInt(s)),
                  !.sum_s2_over_N = RAdd(@, Rat(s * s, IF N > 1 THEN N ELSE 1))]

\* macro_update (use_k = True): the batched update of one report
macro_update(glob, stats, param, N, result, lr, beta2, eps) ==
    With(sf_weighting_update([glob EXCEPT !.iter_pairs = @ + N], N, lr),
         LAMBDA w :
    With(adam_v_closed_form(param.v, beta2, N, sim_mu2_hat(stats),
                            w.glob.iter_pairs, eps),
         LAMBDA cf :
    With(IF RPos(cf.denom)
         THEN RMul(RDiv(RMul(lr, RInt(result)), cf.denom), adam_k(N, beta2))
         ELSE RZero,
         LAMBDA step_phi :
    With(RAdd(param.z, RMul(step_phi, param.c)), LAMBDA z_new :
    With(IF param.beta1 = RZero THEN z_new
         ELSE RAdd(RMul(RSub(ROne, w.a_k),
                        reconstruct_x_prev(param.theta, param.z, param.beta1)),
                   RMul(w.a_k, z_new)),
         LAMBDA x_new :
    [glob |-> w.glob, denom |-> cf.denom, rational |-> IsSquare(cf.v_hat),
     upd |-> [x |-> x_new, z |-> z_new, v |-> cf.v_new,
              theta |-> RAdd(RMul(RSub(ROne, param.beta1), z_new),
                             RMul(param.beta1, x_new))]])))))

\* The loop of the Adam micro_apply_sequence: st holds glob, z, x, v, the last
\* denom, and whether every root taken was rational.
RECURSIVE adam_micro_loop(_, _, _, _, _, _, _)
adam_micro_loop(st, param0, seq_num, seq_gsq, lr, beta2, eps) ==
    IF seq_num = << >> THEN st
    ELSE With(sf_weighting_update([st.glob EXCEPT !.iter_pairs = @ + 1], 1, lr),
              LAMBDA w :
         With(IF RLess(beta2, ROne)
              THEN RAdd(RMul(beta2, st.v),
                        RMul(RSub(ROne, beta2), Head(seq_gsq)))
              ELSE st.v,
              LAMBDA v :
         With(IF RLess(beta2, ROne)
              THEN adam_v_hat(v, beta2, w.glob.iter_pairs) ELSE v,
              LAMBDA v_hat :
         With(RAdd(RSqrt(v_hat), eps), LAMBDA denom :
         With(RAdd(st.z, RMul(RDiv(RMul(lr, Head(seq_num)), denom), param0.c)),
              LAMBDA z :
         With(IF param0.beta1 # RZero
              THEN RAdd(RMul(RSub(ROne, w.a_k), st.x), RMul(w.a_k, z))
              ELSE st.x,
              LAMBDA x :
         adam_micro_loop(
             [glob |-> w.glob, z |-> z, x |-> x, v |-> v, denom |-> denom,
              rational |-> st.rational /\ IsSquare(v_hat)],
             param0, Tail(seq_num), Tail(seq_gsq), lr, beta2, eps)))))))

\* micro_apply_sequence of bias-sf-adam.py
adam_micro_apply_sequence(glob0, param0, seq_num, seq_gsq, lr, beta2, eps) ==
    With(adam_micro_loop(
             [glob |-> glob0, z |-> param0.z,
              x |-> IF param0.beta1 = RZero THEN param0.z
                    ELSE reconstruct_x_prev(param0.theta, param0.z,
                                            param0.beta1),
              v |-> param0.v, denom |-> RZero, rational |-> TRUE],
             param0, seq_num, seq_gsq, lr, beta2, eps),
         LAMBDA r :
    [denom |-> r.denom, rational |-> r.rational,
     upd |-> [x |-> r.x, z |-> r.z, v |-> r.v,
              theta |-> RAdd(RMul(RSub(ROne, param0.beta1), r.z),
                             RMul(param0.beta1, r.x))]])

\* run_macro and run_micro of bias-sf-adam.py side by side on one schedule:
\* GlobalState() and ParamState() defaults, the estimator unseeded.
AdamStart(lr, beta1, beta2, eps, c, mu2_init) ==
    LET glob == [iter_pairs |-> 0, sf_weight_sum |-> RZero]
        stats == [reports |-> RZero, sum_N |-> RZero, sum_s |-> RZero,
                  sum_s2_over_N |-> RZero, mu2_init |-> mu2_init]
        param == [theta |-> RZero, z |-> RZero, v |-> RZero, c |-> c,
                  beta1 |-> beta1]
        start == [glob |-> glob, stats |-> stats, param |-> param]
    IN  [op |-> "adam", lr |-> lr, beta2 |-> beta2, eps |-> eps,
         reports |-> 0, N |-> 0, result |-> 0,
         macro |-> start, micro |-> start]

InitAdam ==
    /\ RunAtRest
    /\ \E lr \in {Rat(1, 2), ROne}, beta1 \in {RZero, Rat(1, 2)},
          beta2 \in {RZero, Rat(1, 4)}, mu2_init \in {ROne, RInt(4)} :
          last = AdamStart(lr, beta1, beta2, Rat(1, 10), Rat(1, 2), mu2_init)

\* One report of the schedule: the loop body of run_macro, and the loop body
\* of run_micro on the sequences of build_const_mean_online_sequences (N
\* copies of the block mean, N copies of the pre-block mu2).  Only the reports
\* on which every square root is that of a rational square are followed.
AdamStep(ma, mi, N, result) ==
    /\ ma.rational /\ mi.rational
    /\ last' = [last EXCEPT
           !.reports = @ + 1,
           !.N = N,
           !.result = result,
           !.macro = [glob |-> ma.glob,
                      stats |-> update_mu2_stats(last.macro.stats, N, result),
                      param |-> [last.macro.param EXCEPT
                                    !.z = ma.upd.z,
                                    !.theta = ma.upd.theta,
                                    !.v = ma.upd.v],
                      upd |-> ma.upd, denom |-> ma.denom],
           !.micro = [glob |-> [iter_pairs |-> last.micro.glob.iter_pairs + N,
                                sf_weight_sum |->
                                    RAdd(last.micro.glob.sf_weight_sum,
                                         RMul(last.lr, RInt(N)))],
                      stats |-> update_mu2_stats(last.micro.stats, N, result),
                      param |-> [last.micro.param EXCEPT
                                    !.z = mi.upd.z,
                                    !.theta = mi.upd.theta,
                                    !.v = mi.upd.v],
                      upd |-> mi.upd, denom |-> mi.denom]]

AdamReport(outcomes) ==
    /\ last.reports < MaxReports
    /\ AdamStep(macro_update(last.macro.glob, last.macro.stats,
                             last.macro.param, Len(outcomes),
                             SumSeq(outcomes), last.lr, last.beta2, last.eps),
                adam_micro_apply_sequence(
                    last.micro.glob, last.micro.param,
                    build_sequence_const_mean(outcomes),
                    [j \in 1..Len(outcomes) |->
                        sim_mu2_hat(last.micro.stats)],
                    last.lr, last.beta2, last.eps),
                Len(outcomes), SumSeq(outcomes))
    /\ UNCHANGED <<spsa, tasks, has_buffer, run, users, lock, pc, call, issuance>>

NextAdam == \E outcomes \in OutcomeBlocks : AdamReport(outcomes)

SpecAdam == InitAdam /\ [][NextAdam]_vars

\* ---------------------------------------------------------- the user database

\* At most MaxUsers users are ever inserted.  Strings that the code takes apart
\* (usernames) are sequences of characters; the others are atoms.
MaxUsers == 2
Providers == {"github"}
Subjects == {"", "s1", "s2"}
Emails == {"", "e1", "e2"}
PreferredUsernames == {<<"a">>, <<"-">>}
Digits == <<"0", "1", "2", "3", "4", "5", "6", "7", "8", "9">>
Alnum == {"a", "u", "s", "e", "r"} \cup {Digits[i] : i \in DOMAIN Digits}

\* str(n) of a natural number
RECURSIVE Str(_)
Str(n) == IF n < 10 THEN <<Digits[n + 1]>> ELSE Str(n \div 10) \o <<Digits[(n % 10) + 1]>>

\* collection.find_one(filter): the first matching document in insertion
\* order, or None; hits are the positions of the matching documents.
find_one(docs, hits) ==
    IF hits = {} THEN NoneVal
    ELSE Some(docs[CHOOSE i \in hits : \A j \in hits : i <= j])

\* find_by_username: the cached document while the cache entry is fresh (not
\* expired), else the stored one, which is then cached.
find_by_username(us, name, expired) ==
    IF name \in DOMAIN us.cache /\ ~expired
    THEN [user |-> Some(us.cache[name]), users |-> us]
    ELSE LET user == find_one(us.docs, {i \in DOMAIN us.docs :
                                           us.docs[i].username = name})
         IN  [user |-> user,
              users |-> IF user # NoneVal
                        THEN [us EXCEPT !.cache = SetKey(@, name, user[1])]
                        ELSE us]

find_by_email(us, email) ==
    find_one(us.docs, {i \in DOMAIN us.docs : us.docs[i].email = email})

find_by_oauth_subject(us, provider, subject) ==
    IF provider = "" \/ subject = "" THEN NoneVal
    ELSE find_one(us.docs,
                  {i \in DOMAIN us.docs :
                      /\ provider \in DOMAIN us.docs[i].oauth
                      /\ us.docs[i].oauth[provider].sub = subject})

\* re.sub(r"[^A-Za-z0-9]", "", value.strip())[:20]
_sanitize_username_base(value) ==
    LET v == SelectSeq(value, LAMBDA ch : ch \in Alnum)
    IN  SubSeq(v, 1, Min(Len(v), 20))

\* The loop of _generate_unique_username: base, base1, base2, ... until
\* find_by_username finds nothing.  (The entries the lookups cache are dropped
\* by the clear_cache that follows the insert.)
RECURSIVE candidate_from(_, _, _)
candidate_from(us, base, suffix) ==
    LET candidate == IF suffix = 0 THEN base ELSE base \o Str(suffix)
    IN  IF find_by_username(us, candidate, FALSE).user # NoneVal
        THEN candidate_from(us, base, suffix + 1)
        ELSE candidate

_generate_unique_username(us, preferred) ==
    LET sanitized == _sanitize_username_base(preferred)
        base == IF sanitized = << >> THEN <<"u", "s", "e", "r">> ELSE sanitized
    IN  candidate_from(us, base, 0)

clear_cache(us) == [us EXCEPT !.cache = << >>]

\* users.replace_one({"_id": user["_id"]}, user)
replace_one(us, user) ==
    [us EXCEPT !.docs = [i \in DOMAIN us.docs |->
                            IF us.docs[i]._id = user._id THEN user
                            ELSE us.docs[i]]]

\* users.insert_one(user)
insert_one(us, user) ==
    [us EXCEPT !.docs = Append(@, user), !.next_id = @ + 1]

\* remove_user: users.delete_one({"_id": user["_id"]}), clear_cache.
remove_user(us, user) ==
    clear_cache([us EXCEPT !.docs = SelectSeq(@, LAMBDA d : d._id # user._id)])

\* validate_user(user): raises when the document does not fit user_schema,
\* which accepts the documents built here.
validate_user(user) ==
    /\ user.username # << >> /\ user.email # ""
    /\ user.pending \in BOOLEAN /\ user.blocked \in BOOLEAN

\* save_user: validate, replace the stored document, clear the cache.
save_user(us, user) ==
    IF validate_user(user) THEN clear_cache(replace_one(us, user)) ELSE us

\* link_oauth_identity: user["oauth"][provider] = {"sub": subject, ...}, saved;
\* ValueError without provider or subject, or when another user has the
\* identity.  (Of the identity only sub is kept here.)
link_oauth_identity(us, user, provider, subject) ==
    LET existing == find_by_oauth_subject(us, provider, subject)
    IN  IF provider = "" \/ subject = ""
        THEN [raised |-> "ValueError", users |-> us, user |-> user]
        ELSE IF existing # NoneVal /\ existing[1]._id # user._id
        THEN [raised |-> "ValueError", users |-> us, user |-> user]
        ELSE LET linked == [user EXCEPT !.oauth =
                               SetKey(@, provider, [sub |-> subject])]
             IN  [raised |-> "none", users |-> save_user(us, linked),
                  user |-> linked]

\* The user document create_user inserts (no "oauth" key: the empty dict).
NewUser(id, username, email) ==
    [_id |-> id, username |-> username, email |-> email, pending |-> TRUE,
     blocked |-> FALSE, oauth |-> << >>]

\* (a variant of the OAuth-created user that is not pending)
NewOAuthUserApproved(id, username, email, provider, subject) ==
    [_id |-> id, username |-> username, email |-> email, pending |-> FALSE,
     blocked |-> FALSE, oauth |-> SetKey(<< >>, provider, [sub |-> subject])]

\* The user document get_or_create_user_from_oauth inserts.
NewOAuthUser(id, username, email, provider, subject) ==
    [_id |-> id, username |-> username, email |-> email, pending |-> TRUE,
     blocked |-> FALSE, oauth |-> SetKey(<< >>, provider, [sub |-> subject])]

\* What a call returns: {"error": ...} or {"username": ...,
\* "authenticated": True}; error holds the text before the username.
ErrorResult(error, username) ==
    [authenticated |-> FALSE, error |-> error, username |-> username]
Authenticated(username) ==
    [authenticated |-> TRUE, error |-> "", username |-> username]

\* get_or_create_user_from_oauth from "if user is not None:" to the return
\* for an existing user.
ExistingUserResult(user) ==
    IF user.blocked
    THEN ErrorResult("Account blocked for user:", user.username)
    ELSE IF user.pending
    THEN ErrorResult("Account pending for user:", user.username)
    ELSE Authenticated(user.username)

\* get_or_create_user_from_oauth: the users afterwards, what it returned and
\* what it raised.
OAuthCall(us, provider, subject, email, email_verified, preferred_username) ==
    LET by_subject == find_by_oauth_subject(us, provider, subject)
        by_email == find_by_email(us, email)
    IN  IF email = ""
        THEN [users |-> us, raised |-> "none",
              ret |-> ErrorResult("Email is required", << >>)]
        ELSE IF by_subject # NoneVal
        THEN [users |-> us, raised |-> "none",
              ret |-> ExistingUserResult(by_subject[1])]
        ELSE IF email_verified /\ by_email # NoneVal
        THEN LET l == link_oauth_identity(us, by_email[1], provider, subject)
             IN  IF l.raised # "none"
                 THEN [users |-> l.users, raised |-> l.raised,
                       ret |-> ErrorResult("", << >>)]
                 ELSE [users |-> l.users, raised |-> "none",
                       ret |-> ExistingUserResult(l.user)]
        ELSE LET username == _generate_unique_username(us, preferred_username)
                 user == NewOAuthUser(us.next_id, username, email, provider,
                                      subject)
             IN  IF ~validate_user(user)
                 THEN [users |-> us, raised |-> "none",
                       ret |-> ErrorResult("The user object does not validate",
                                           << >>)]
                 ELSE [users |-> clear_cache(insert_one(us, user)),
                       raised |-> "none",
                       ret |-> ErrorResult("Account pending for user:",
                                           username)]

\* The variables of the tuning run, which no call of the user database reads
\* or writes.
TuningUnchanged ==
    UNCHANGED <<spsa, tasks, has_buffer, run, lock, pc, call, issuance>>

get_or_create_user_from_oauth(provider, subject, email, email_verified, preferred_username) ==
    LET r == OAuthCall(users, provider, subject, email, email_verified,
                       preferred_username)
    IN  /\ r.users.next_id <= MaxUsers + 1
        /\ users' = r.users
        /\ last' = [op |-> "oauth", ret |-> r.ret, raised |-> r.raised]
        /\ TuningUnchanged

\* create_user: refused (False) when the username or the email is taken; the
\* new user is pending.  The cache is not cleared.
create_user(username, email, expired) ==
    LET f == find_by_username(users, username, expired)
        taken == f.user # NoneVal \/ find_by_email(f.users, email) # NoneVal
    IN  /\ taken \/ users.next_id <= MaxUsers
        /\ users' = IF taken THEN f.users
                    ELSE insert_one(f.users,
                                    NewUser(users.next_id, username, email))
        /\ last' = [op |-> "create_user", ret |-> ~taken]
        /\ TuningUnchanged

\* get_user(username)
get_user(username, expired) ==
    LET f == find_by_username(users, username, expired)
    IN  /\ users' = f.users
        /\ last' = [op |-> "get_user", found |-> f.user # NoneVal]
        /\ TuningUnchanged

\* views.py, user: user_data = get_user(user_name), then one of the branches
\* that write it: the profile's new email (the user is logged in), blocked,
\* pending accepted (saved as not pending) or rejected (removed).
user(username, expired) ==
    LET f == find_by_username(users, username, expired)
    IN  /\ f.user # NoneVal
        /\ \/ /\ ~f.user[1].pending /\ ~f.user[1].blocked
              /\ \E new_email \in Emails \ {""} :
                    users' = save_user(f.users,
                                       [f.user[1] EXCEPT !.email = new_email])
           \/ \E blocked \in BOOLEAN :
                 users' = save_user(f.users,
                                    [f.user[1] EXCEPT !.blocked = blocked])
           \/ /\ f.user[1].pending
              /\ \/ users' = save_user(f.users,
                                       [f.user[1] EXCEPT !.pending = FALSE])
                 \/ users' = remove_user(f.users, f.user[1])
        /\ last' = [op |-> "user"]
        /\ TuningUnchanged

NextUsers ==
    \/ \E provider \in Providers, subject \in Subjects, email \in Emails,
          email_verified \in BOOLEAN, preferred \in PreferredUsernames :
          get_or_create_user_from_oauth(provider, subject, email,
                                        email_verified, preferred)
    \/ \E username \in {<<"a">>, <<"a", "1">>}, email \in Emails \ {""},
          expired \in BOOLEAN : create_user(username, email, expired)
    \/ \E username \in {<<"a">>, <<"a", "1">>}, expired \in BOOLEAN :
          get_user(username, expired)
    \/ \E i \in DOMAIN users.docs, expired \in BOOLEAN :
          user(users.docs[i].username, expired)

InitUsers == RunAtRest /\ last = NoEvent

SpecUsers == InitUsers /\ [][NextUsers]_vars

\* ------------------------------------------------------------- the claims

\* The task of the step just taken by a call's body
T == last.task

HasStoredParams(t) == "spsa_params" \in DOMAIN tasks[t]

\* The step is the first step of a report's body (__update_spsa_data up to the
\* advance of iter), taken by thread th.
ReportStep(th) == pc[th] = "update_body" /\ pc'[th] # "update_body"

\* C1: a report on a task whose stored perturbation a report already consumed
\* (no request in between), or on a task that carries none, changes nothing:
\* spsa (iter, weight_sum, the estimator accumulators, the history and every
\* theta/z/v) and the tasks are the same after the call, which returns.
C1_ReplayedReportIsNoOp ==
    [][\A th \in Threads :
          (/\ ReportStep(th)
           /\ \/ issuance[call[th].task].reported
              \/ ~HasStoredParams(call[th].task))
          => /\ spsa' = spsa
             /\ tasks' = tasks
             /\ pc'[th] = "idle"
             /\ last'.raised = "none"]_vars

\* C1's case: a report came back as a no-op on a task whose perturbation an
\* applied report had consumed, on a run that has advanced.
C1_Witness ==
    /\ last.op = "update"
    /\ last.outcome = "no_spsa_params"
    /\ issuance[T].applied = 1
    /\ spsa.iter > 0

\* C2: of the reports that answer one issued perturbation, exactly one is
\* applied when one is accepted: iter advances by one report's N and every
\* parameter is updated exactly once.
C2_AcceptedReportUpdatesParametersOnce ==
    \A t \in Tasks :
        (issuance[t].applied > 0 /\ \A th \in Threads : pc[th] = "idle")
        => issuance[t].applied = 1 /\ issuance[t].updated = 1

\* The part of C2 that the lock and the deletion of the stored perturbation
\* give: no perturbation is applied twice.
C2_AtMostOneApplied ==
    \A t \in Tasks : issuance[t].applied <= 1 /\ issuance[t].updated <= 1

\* C3: no call of request_spsa_data or update_spsa_data raises.
C3_NoCallRaises == last.op # "none" => last.raised = "none"

\* C4: a report whose signature differs from the crc32 of the packed flips
\* stored on the task leaves spsa unchanged and returns.
C4_SignatureMismatchRejected ==
    [][\A th \in Threads :
          (/\ ReportStep(th)
           /\ HasStoredParams(call[th].task)
           /\ last'.read.sig
                # crc32(tasks[call[th].task].spsa_params.packed_flips))
          => /\ spsa' = spsa
             /\ pc'[th] = "idle"
             /\ last'.raised = "none"]_vars

\* C4's case: a report was rejected for a signature that a request had handed
\* out (for another perturbation).
C4_Witness ==
    /\ last.op = "update"
    /\ last.outcome = "sig_mismatch"
    /\ last.read.sig # ZeroSig

\* C5: a report whose signature matches and whose N = num_games // 2 is not
\* positive (num_games 0 or 1) leaves spsa unchanged and returns.
C5_EmptyBatchRejected ==
    [][\A th \in Threads :
          (/\ ReportStep(th)
           /\ HasStoredParams(call[th].task)
           /\ "num_games" \in DOMAIN last'.read
           /\ last'.read.num_games \in {0, 1})
          => /\ spsa' = spsa
             /\ pc'[th] = "idle"
             /\ last'.raised = "none"]_vars

\* C5's case: a report with the matching signature and num_games = 1 was
\* rejected.
C5_Witness ==
    /\ last.op = "update"
    /\ last.outcome = "N_not_positive"
    /\ last.read.num_games = 1

\* The step is the body of a request (__request_spsa_data), taken by th.
RequestStep(th) == pc[th] = "request_body" /\ pc'[th] # "request_body"

\* C6: a request for a task that is not active returns task_alive = False,
\* leaves spsa and every task (its stored perturbation included) unchanged and
\* does not call buffer.
C6_InactiveTaskRequest ==
    [][\A th \in Threads :
          (RequestStep(th) /\ ~tasks[call[th].task].active)
          => /\ last'.ret = [task_alive |-> FALSE]
             /\ last'.raised = "none"
             /\ spsa' = spsa
             /\ tasks' = tasks
             /\ last'.buffer_calls = 0]_vars

\* C6's case: a request was refused for an inactive task that carries a stored
\* perturbation.
C6_Witness ==
    /\ last.op = "request"
    /\ last.outcome = "not_active"
    /\ HasStoredParams(T)

\* C7: a request that succeeds stores on the task the run's iter and the
\* packed flips of the perturbation it returns, whose crc32 is the returned
\* signature, and changes nothing else: spsa, the other tasks and the task's
\* other keys are unchanged.
C7_RequestStoresIssuance ==
    [][\A th \in Threads :
          (RequestStep(th) /\ last'.raised = "none" /\ last'.ret.task_alive)
          => LET t == call[th].task
                 stored == tasks'[t].spsa_params
                 w == last'.ret.w_params
             IN  /\ DOMAIN tasks'[t] = DOMAIN tasks[t] \cup {"spsa_params"}
                 /\ stored.iter = spsa.iter
                 /\ stored.packed_flips =
                        _pack_flips([i \in DOMAIN w |-> w[i].flip])
                 /\ last'.ret.sig = crc32(stored.packed_flips)
                 /\ spsa' = spsa
                 /\ tasks'[t].active = tasks[t].active
                 /\ \A u \in Tasks \ {t} : tasks'[u] = tasks[u]]_vars

\* C7's case: a request succeeded on a run that has advanced and stored the
\* advanced iter on the task.
C7_Witness ==
    /\ last.op = "request"
    /\ last.outcome = "issued"
    /\ spsa.iter > 0
    /\ tasks[T].spsa_params.iter = spsa.iter

\* C8: iter and sf_weight_sum never decrease (sf_lr > 0).
C8_Monotone ==
    [][/\ spsa'.iter >= spsa.iter
       /\ "sf_weight_sum" \in DOMAIN spsa
            => spsa'.sf_weight_sum >= spsa.sf_weight_sum]_vars

\* C8's case: reports worth two game pairs have been applied to a run with the
\* schedule-free keys and a positive learning rate.
C8_Witness ==
    /\ "sf_weight_sum" \in DOMAIN spsa
    /\ spsa.sf_lr > 0
    /\ spsa.iter >= 2
    /\ spsa.sf_weight_sum >= 2 * spsa.sf_lr

\* The calls that are inside their body, between the first read of the run
\* and the last mutation.
InBody == {th \in Threads : pc[th] # "idle"}

\* C9: at most one call of request_spsa_data or update_spsa_data on the run is
\* inside its body at a time, and it holds the run's lock.
C9_MutualExclusion ==
    /\ Cardinality(InBody) <= 1
    /\ \A th \in InBody : lock = th

\* C9's case: a report is between the advance of iter and the parameter
\* updates.
C9_Witness == \E th \in Threads : pc[th] = "update_apply" /\ lock = th

InRange(x, param) == param.min <= x /\ x <= param.max

\* Every surrogate in xs (None excepted) lies in the parameter's range.
SurrogateInRange(xs, param) == \A k \in DOMAIN xs : InRange(xs[k], param)

\* C10 as stated: after an accepted report every theta lies in [min, max],
\* and so does every surrogate the update reconstructed or computed, x_prev
\* and x_new.
C10_ThetaAndEverySurrogateInRange ==
    /\ \A i \in DOMAIN spsa.params :
          InRange(spsa.params[i].theta, spsa.params[i])
    /\ last.op = "update"
         => \A i \in DOMAIN spsa.params :
               /\ SurrogateInRange(last.locals.x[i].x_prev, spsa.params[i])
               /\ SurrogateInRange(last.locals.x[i].x_new, spsa.params[i])

\* C10: after an accepted report every theta lies in [min, max], under the
\* classic and under the schedule-free rule, for any N > 0, signed result and
\* flip; with beta1 # 0 the reconstructed x_prev and the averaged x_new lie in
\* [min, max]; with beta1 = 0 no x_prev is reconstructed and x_new is z_new
\* itself, which is not clamped.
C10_ThetaAndAveragedSurrogateInRange ==
    /\ \A i \in DOMAIN spsa.params :
          InRange(spsa.params[i].theta, spsa.params[i])
    /\ last.op = "update"
         => \A i \in DOMAIN spsa.params :
               /\ SurrogateInRange(last.locals.x[i].x_prev, spsa.params[i])
               /\ IF "z" \in DOMAIN spsa.params[i] /\ spsa.sf_beta1 = 0
                  THEN /\ last.locals.x[i].x_prev = NoneVal
                       /\ last.locals.x[i].x_new = Some(spsa.params[i].z)
                  ELSE SurrogateInRange(last.locals.x[i].x_new, spsa.params[i])

\* C10's case: with beta1 # 0 the fast iterate z of a parameter has left
\* [min, max] and its theta and surrogates were clamped into the range.
C10_Witness ==
    /\ last.op = "update"
    /\ "sf_beta1" \in DOMAIN spsa
    /\ spsa.sf_beta1 # 0
    /\ \E i \in DOMAIN spsa.params :
          /\ "z" \in DOMAIN spsa.params[i]
          /\ spsa.params[i].z > spsa.params[i].max
          /\ spsa.params[i].theta = spsa.params[i].max
          /\ last.locals.x[i].x_prev # NoneVal
          /\ last.locals.x[i].x_new # NoneVal

\* C11: for every finite sequence v over {+1, -1}, the empty one and those
\* whose length is not a multiple of 8 included,
\* _unpack_flips(_pack_flips(v), len(v)) == v.
C11_PackUnpackRoundTrip ==
    last.op = "codec"
    => /\ last.unpacked = last.flips
       /\ Len(last.packed_flips) = (Len(last.flips) + 7) \div 8

\* C11's case: a vector of both signs, longer than one byte and not a multiple
\* of 8 long, went through the round trip.
C11_Witness ==
    /\ last.op = "codec"
    /\ Len(last.flips) > 8
    /\ Len(last.flips) % 8 # 0
    /\ \E i, j \in DOMAIN last.flips : last.flips[i] = 1 /\ last.flips[j] = -1
    /\ last.unpacked = last.flips

\* C12: schedule-free SGD: after any sequence of reports of varying N, the N
\* sequential unit updates with outcome signed_result / N each
\* (micro_apply_sequence on the const-mean sequence) give the same
\* (z, x, theta) as the closed-form batched update (macro_update_sgd), and the
\* two runs keep the same time axis and mass.
C12_SgdBatchEqualsSequence ==
    (last.op = "sgd" /\ last.reports > 0)
    => /\ last.macro.upd = last.micro.upd
       /\ last.macro.glob = last.micro.glob
       /\ last.macro.param = last.micro.param

\* The part of C12 that the code gives: with a blend weight that is not 0 the
\* two updates agree on (z, x, theta); with beta1 = 0 they agree on z and
\* theta, while the per-step path leaves x at the z it started from.
C12_EqualUnlessBlendIsZero ==
    (last.op = "sgd" /\ last.reports > 0)
    => /\ last.macro.glob = last.micro.glob
       /\ last.macro.param = last.micro.param
       /\ IF last.macro.param.beta1 # RZero
          THEN last.macro.upd = last.micro.upd
          ELSE /\ last.macro.upd.x = last.macro.upd.z
               /\ last.micro.upd.x
                    = RSub(last.micro.upd.z,
                           RMul(RMul(last.lr, last.micro.param.c),
                                RInt(last.result)))

RAbs(x) == <<Abs(x[1]), x[2]>>

\* x and y differ by at most tol
RClose(x, y, tol) == ~RLess(tol, RAbs(RSub(x, y)))

\* A tolerance far looser than a numerical one.
AdamTolerance == Rat(1, 100)

\* C13: schedule-free Adam: the closed-form second moment
\* beta2^N * v + (1 - beta2^N) * mu2 equals the N sequential steps
\* v <- beta2 * v + (1 - beta2) * mu2 with the constant pre-block mu2, and the
\* batched denom, z and theta match those of the N sequential per-step
\* updates within a small tolerance.
C13_AdamBatchMatchesSequence ==
    (last.op = "adam" /\ last.reports > 0)
    => /\ last.macro.upd.v = last.micro.upd.v
       /\ RClose(last.macro.denom, last.micro.denom, AdamTolerance)
       /\ RClose(last.macro.upd.z, last.micro.upd.z, AdamTolerance)
       /\ RClose(last.macro.upd.theta, last.micro.upd.theta, AdamTolerance)

\* The part of C13 that the code gives: the closed-form v and the end-of-block
\* denom equal the sequential ones; a block of one pair gives the same z and
\* theta on both paths, and so does beta2 = 0 for z.  Otherwise the batched
\* step is damped by k(N, beta2) and the batched surrogate averages z_new
\* alone.
C13_SecondMomentAndDenomEqual ==
    (last.op = "adam" /\ last.reports > 0)
    => /\ last.macro.upd.v = last.micro.upd.v
       /\ last.macro.denom = last.micro.denom
       /\ last.beta2 = RZero => last.macro.upd.z = last.micro.upd.z
       /\ (last.reports = 1 /\ last.N = 1)
            => /\ last.macro.upd.z = last.micro.upd.z
               /\ last.macro.upd.theta = last.micro.upd.theta

\* C14: once the run is marked finished or deleted no report changes its
\* optimizer state, not even one for a task that still carries a stored
\* perturbation and presents the matching signature.
C14_FinishedRunImmutable ==
    [][\A th \in Threads :
          (call[th].op = "update" /\ call[th].after_finish)
          => spsa' = spsa]_vars

\* C15: on a handler constructed on a non-primary instance no call of
\* update_spsa_data changes the optimizer state.
C15_ReplicaDoesNotApplyReports ==
    [][~has_buffer => spsa' = spsa]_vars

\* The step stores a perturbation on task t, which carried none.
StoresParams(t) ==
    ~HasStoredParams(t) /\ "spsa_params" \in DOMAIN tasks'[t]

\* The step ends a report call of thread th (it returned or raised).
ReportEnds(th) == call[th].op = "update" /\ pc[th] # "idle" /\ pc'[th] = "idle"

\* C16: a task carries a stored perturbation only if a request for that task
\* succeeded and no report for it has run since: a perturbation appears on a
\* task only in the step in which a request for that task returns its result,
\* and when a report call on a task ends, applied or rejected, the task carries
\* none.
C16_StoredOnlyBetweenRequestAndReport ==
    [][/\ \A t \in Tasks :
             StoresParams(t)
             => /\ last'.op = "request" /\ last'.task = t
                /\ last'.outcome = "issued" /\ last'.raised = "none"
       /\ \A th \in Threads :
             ReportEnds(th)
             => "spsa_params" \notin DOMAIN tasks'[call[th].task]]_vars

\* C16, the part that holds on every instance: when a report call on a task
\* ends, the task carries no stored perturbation, and a perturbation appears
\* only in the last step of a request for that task.
C16_ReportLeavesNoStoredParams ==
    [][/\ \A t \in Tasks :
             StoresParams(t) => (last'.op = "request" /\ last'.task = t)
       /\ \A th \in Threads :
             ReportEnds(th)
             => "spsa_params" \notin DOMAIN tasks'[call[th].task]]_vars

\* C17: the mu2 estimate that normalizes the Adam update of an accepted report
\* is the estimate of the accumulators before that report: the report adds
\* itself to the accumulators only afterwards, and the first accepted report
\* uses the prior mu2_init.
C17_EstimateIsPreBlock ==
    [][/\ last'.locals.g2_mean = _mu2_hat(spsa)
       /\ spsa.mu2_reports = 0 => last'.locals.g2_mean = spsa.mu2_init
       /\ spsa'.mu2_reports = spsa.mu2_reports + SCALE
       /\ spsa'.mu2_sum_N = spsa.mu2_sum_N + ToFloat(last'.read.N)
       /\ spsa'.mu2_sum_s = spsa.mu2_sum_s + ToFloat(last'.read.result)]_vars

\* the second accepted report of a run used an estimate that differs from the
\* prior and from the estimate that includes the report itself
C17_Witness ==
    /\ last.op = "update"
    /\ spsa.mu2_reports = 2 * SCALE
    /\ last.locals.g2_mean # spsa.mu2_init
    /\ last.locals.g2_mean # _mu2_hat(spsa)

\* C18: the moment estimator returns the prior mu2_init while no report has
\* been fed to it, and after any reports (N > 0, any signed result) a value
\* within [1e-12, 4.0].
C18_EstimateIsPriorOrInRange ==
    /\ spsa.mu2_reports = 0 => last.estimate = spsa.mu2_init
    /\ spsa.mu2_reports > 0
       => (ULP <= last.estimate /\ last.estimate <= Mu2Max * SCALE)

\* the reports (N=10, s=2) then (N=20, s=-1) were fed
C18_Witness ==
    /\ spsa.mu2_reports = 2 * SCALE
    /\ spsa.mu2_sum_N = ToFloat(30)
    /\ spsa.mu2_sum_s = ToFloat(1)
    /\ last.N = 20 /\ last.s = -1
    /\ spsa.mu2_init = SCALE

\* No stored user matches the identity: none carries the subject and, if the
\* email is verified, none has the email.
NoUserMatches(us, provider, subject, email, email_verified) ==
    /\ find_by_oauth_subject(us, provider, subject) = NoneVal
    /\ ~(email_verified /\ find_by_email(us, email) # NoneVal)

\* The call authenticated a stored user that is neither blocked nor pending.
AuthenticatesActiveUser(us, r) ==
    r.ret.authenticated
    => \E i \in DOMAIN us.docs :
          /\ us.docs[i].username = r.ret.username
          /\ ~us.docs[i].pending /\ ~us.docs[i].blocked

\* The call stored exactly one new user, pending and carrying the identity,
\* and returned the pending error instead of authenticating.
StoresOnePendingUser(us, r, provider, subject) ==
    /\ Len(r.users.docs) = Len(us.docs) + 1
    /\ SubSeq(r.users.docs, 1, Len(us.docs)) = us.docs
    /\ LET new == r.users.docs[Len(r.users.docs)]
       IN  /\ new.pending
           /\ provider \in DOMAIN new.oauth
           /\ new.oauth[provider].sub = subject
           /\ r.ret.username = new.username
    /\ ~r.ret.authenticated
    /\ r.ret.error = "Account pending for user:"
    /\ r.raised = "none"

\* What C19 states of one call with the given arguments in the state us, and
\* of the same call made again afterwards.
OAuthPendingContract(us, provider, subject, email, email_verified, preferred) ==
    LET r == OAuthCall(us, provider, subject, email, email_verified, preferred)
        again == OAuthCall(r.users, provider, subject, email, email_verified,
                           preferred)
    IN  /\ AuthenticatesActiveUser(us, r)
        /\ NoUserMatches(us, provider, subject, email, email_verified)
           => /\ StoresOnePendingUser(us, r, provider, subject)
              /\ ~again.ret.authenticated

\* A call with an identity that a stored pending user carries does not
\* authenticate.
PendingIdentityNotAuthenticated(us, provider, subject, email, email_verified, preferred) ==
    (\E i \in DOMAIN us.docs :
        /\ us.docs[i].pending
        /\ provider \in DOMAIN us.docs[i].oauth
        /\ us.docs[i].oauth[provider].sub = subject)
    => ~OAuthCall(us, provider, subject, email, email_verified,
                  preferred).ret.authenticated

ActiveUserHasEmail(us, email) ==
    \E i \in DOMAIN us.docs :
        /\ us.docs[i].email = email
        /\ ~us.docs[i].pending /\ ~us.docs[i].blocked

\* The call authenticated a user that has the email and is neither pending
\* nor blocked, and get_user of that username now returns a record with
\* oauth[provider].sub = subject.
AuthenticatesAndLinks(us, r, provider, subject, email) ==
    /\ r.raised = "none"
    /\ r.ret.authenticated
    /\ \E i \in DOMAIN us.docs :
          /\ us.docs[i].username = r.ret.username
          /\ us.docs[i].email = email
          /\ ~us.docs[i].pending /\ ~us.docs[i].blocked
    /\ \A expired \in BOOLEAN :
          LET user2 == find_by_username(r.users, r.ret.username, expired).user
          IN  /\ user2 # NoneVal
              /\ provider \in DOMAIN user2[1].oauth
              /\ user2[1].oauth[provider].sub = subject

\* The call neither linked an identity to a stored user nor authenticated
\* anybody.
NoUserLinkedOrAuthenticated(us, r) ==
    /\ ~r.ret.authenticated
    /\ \A i \in DOMAIN us.docs : r.users.docs[i] = us.docs[i]

\* C20: a call with email_verified = true, a subject linked to no user and the
\* email of a stored user that is neither pending nor blocked authenticates as
\* that user and links the identity, so that get_user(username) then returns
\* a record with oauth[provider].sub = subject; with email_verified = false no
\* stored account is linked to or authenticated through its email.  (Stated
\* for the calls that pass a subject.)
C20_VerifiedEmailLinksExistingUser ==
    \A provider \in Providers, subject \in Subjects \ {""}, email \in Emails,
       preferred \in PreferredUsernames :
       /\ (/\ find_by_oauth_subject(users, provider, subject) = NoneVal
           /\ ActiveUserHasEmail(users, email))
          => AuthenticatesAndLinks(
                 users,
                 OAuthCall(users, provider, subject, email, TRUE, preferred),
                 provider, subject, email)
       /\ find_by_oauth_subject(users, provider, subject) = NoneVal
          => NoUserLinkedOrAuthenticated(
                 users,
                 OAuthCall(users, provider, subject, email, FALSE, preferred))

\* C20, the part that holds: when the user that find_by_email returns for a
\* verified email (the first stored one with that email) is neither pending
\* nor blocked and the subject is not empty and linked to no user, the call
\* authenticates as that user and links the identity; with
\* email_verified = false no stored user is linked or authenticated through
\* its email.
C20_LinksTheUserFoundByEmail ==
    \A provider \in Providers, subject \in Subjects \ {""}, email \in Emails,
       preferred \in PreferredUsernames :
       LET found == find_by_email(users, email)
       IN  find_by_oauth_subject(users, provider, subject) = NoneVal
           => /\ (/\ email # "" /\ found # NoneVal
                  /\ ~found[1].pending /\ ~found[1].blocked)
                 => LET r == OAuthCall(users, provider, subject, email, TRUE,
                                       preferred)
                    IN  /\ AuthenticatesAndLinks(users, r, provider, subject,
                                                 email)
                        /\ r.ret.username = found[1].username
              /\ NoUserLinkedOrAuthenticated(
                     users,
                     OAuthCall(users, provider, subject, email, FALSE,
                               preferred))

\* C21: no call of request_spsa_data or update_spsa_data calls buffer(run)
\* while it holds the run's lock: the lock taken for the call is released
\* before each buffer(run) of that call.
C21_BufferCalledAfterLockReleased ==
    "buffer_under_lock" \in DOMAIN last => ~last.buffer_under_lock

\* The outcomes of a report that was rejected: no stored perturbation, a
\* signature that does not match, N <= 0.
RejectedOutcomes == {"no_spsa_params", "sig_mismatch", "N_not_positive"}

\* The report call that just ended was an accepted one.
AcceptedReportEnded ==
    /\ last.op = "update"
    /\ last.outcome \notin RejectedOutcomes \cup {"advanced"}

\* C22: a report call that was accepted (stored perturbation, matching
\* signature, N > 0) has called buffer(run) exactly once when it ends, and a
\* rejected one has not called it.
C22_AcceptedReportBuffersOnce ==
    /\ AcceptedReportEnded => last.buffer_calls = 1
    /\ (last.op = "update" /\ last.outcome \in RejectedOutcomes)
         => last.buffer_calls = 0

\* The part of C22 about rejected reports: none of them calls buffer(run).
C22_RejectedReportDoesNotBuffer ==
    (last.op = "update" /\ last.outcome \in RejectedOutcomes)
       => last.buffer_calls = 0

\* The step ends an accepted report of thread th on a run that carries the
\* schedule-free keys.
AppliedReportEnds(th) ==
    pc[th] = "update_apply" /\ pc'[th] = "idle" /\ "sf_lr" \in DOMAIN spsa

\* C23: the history is append-only and sampled per accepted report: an
\* accepted report appends one snapshot (one entry per parameter) when
\* len(history) + 1 <= iter / period and nothing otherwise, every other step
\* leaves the history as it is, and len(history) <= iter / period throughout.
C23_HistorySampledPerAcceptedReport ==
    [][/\ \A th \in Threads :
             AppliedReportEnds(th)
             => LET l == call[th]
                    r == ApplyReport(spsa, l.w_params, l.result, l.N)
                IN  param_history(spsa') =
                        param_history(_add_to_history(r.spsa, num_games_run,
                                                      l.w_params, r.show_vals))
       /\ (\A th \in Threads : ~AppliedReportEnds(th))
             => param_history(spsa') = param_history(spsa)
       /\ Len(param_history(spsa')) * num_games_run
             <= spsa'.iter * 2 * Samples(Len(spsa'.params))[1]]_vars

\* What holds of the history: no step of the handler creates or extends
\* spsa["param_history"].
C23_HistoryNeverWritten ==
    [][param_history(spsa') = param_history(spsa)]_vars

\* name, R, c and flip of a perturbation, without the perturbed value.
Metadata(w_params) ==
    [i \in DOMAIN w_params |->
        [name |-> w_params[i].name, R |-> w_params[i].R,
         c |-> w_params[i].c, flip |-> w_params[i].flip]]

\* The perturbation _generate_data yields on spsa_ for the iter and the packed
\* flips stored on a task.
IssuedPerturbation(spsa_, stored) ==
    _generate_data(spsa_, stored.iter,
                   _unpack_flips(stored.packed_flips, Len(spsa_.params))).w_params

\* The entries of the run that c and R are derived from, besides the iter.
Schedule(spsa_) ==
    [gains |-> [k \in DOMAIN spsa_ \cap {"A", "alpha", "gamma"} |-> spsa_[k]],
     params |-> [i \in DOMAIN spsa_.params |->
                    [k \in DOMAIN spsa_.params[i] \cap {"c", "a"} |->
                        spsa_.params[i][k]]]]

\* C24: whatever was interleaved between a task's request and its report, the
\* report applies the c, R and flips of the perturbation the request returned:
\* c and R derived from the iter stored on the task (not the run's current
\* one), the stored flips in parameter order, and no value sent by the worker.
C24_ReportAppliesIssuedPerturbation ==
    [][/\ \A th \in Threads :
             (RequestStep(th) /\ last'.raised = "none" /\ last'.ret.task_alive)
             => Metadata(last'.ret.w_params) =
                   Metadata(IssuedPerturbation(
                                spsa', tasks'[call[th].task].spsa_params))
       /\ Schedule(spsa') = Schedule(spsa)
       /\ \A th \in Threads :
             (ReportStep(th) /\ pc'[th] = "update_apply")
             => /\ call'[th].w_params =
                      Metadata(IssuedPerturbation(
                                   spsa, tasks[call[th].task].spsa_params))
                /\ DOMAIN last'.read = {"sig", "num_games"}
       /\ \A th \in Threads :
             AppliedReportEnds(th)
             => spsa' = ApplyReport(spsa, call[th].w_params, call[th].result,
                                    call[th].N).spsa]_vars

\* C24's case: a report is being applied, on a run whose c depends on the
\* iter, with the c of an issuance older than the run's current iter (a
\* report of another task was applied in between).
C24_Witness ==
    \E th \in Threads :
        /\ pc[th] = "update_apply"
        /\ "gamma" \in DOMAIN spsa /\ "sf_lr" \in DOMAIN spsa
        /\ call[th].w_params
             # Metadata(_generate_data(spsa, spsa.iter - call[th].N,
                                      [i \in DOMAIN spsa.params |->
                                          call[th].w_params[i].flip]).w_params)

\* A report is partially applied: iter is advanced by its N and the
\* parameters still hold their values of before the report.
PartiallyApplied == \E th \in Threads : pc[th] = "update_apply"

\* C25: every read of the run's optimizer state is made under the run's lock,
\* so that no reader, get_spsa_data included, is handed a state in which a
\* report is partially applied.
C25_NoReaderSeesPartialReport ==
    last.op = "get_spsa_data"
       => last.holds_lock /\ ~(last.ret = spsa /\ PartiallyApplied)

\* What the lock gives: requests and reports read and write the optimizer
\* state only while they hold the run's lock.
C25_RequestsAndReportsHoldLock ==
    [][\A th \in Threads : pc[th] # "idle" => lock = th]_vars

\* The step is the first step of a report of thread th that passes the three
\* checks: a perturbation is stored on the task, the signature read is the
\* crc32 of its packed flips, and num_games // 2 > 0.
AcceptedReportStep(th) ==
    /\ ReportStep(th)
    /\ HasStoredParams(call[th].task)
    /\ "num_games" \in DOMAIN last'.read
    /\ last'.read.sig = crc32(tasks[call[th].task].spsa_params.packed_flips)
    /\ last'.read.num_games \div 2 > 0

AdvancedReportEnds(th) == pc[th] = "update_apply" /\ pc'[th] = "idle"

\* Every parameter of the run was updated by the step that ends the report of
\* th: the parameters are those the update rules give for the report.
EveryParameterUpdated(th) ==
    /\ "sf_lr" \in DOMAIN spsa
    /\ spsa'.params = ApplyReport(spsa, call[th].w_params, call[th].result,
                                  call[th].N).spsa.params
    /\ issuance'[call[th].task].updated = issuance[call[th].task].updated + 1

\* C27: a report that follows a successful request on its task and carries
\* the signature of the stored perturbation with num_games >= 2 is applied,
\* whatever was interleaved on other tasks: iter advances by N and every
\* parameter of the run is updated.
C27_IssuedReportIsApplied ==
    [][\A th \in Threads :
          /\ AcceptedReportStep(th)
                => /\ spsa'.iter = spsa.iter + last'.read.num_games \div 2
                   /\ pc'[th] = "update_apply"
          /\ AdvancedReportEnds(th) => EveryParameterUpdated(th)]_vars

\* What holds of C27: on a run whose document carries the schedule-free keys
\* such a report advances iter by N and updates every parameter.
C27_AppliedOnRunsWithScheduleFreeKeys ==
    [][\A th \in Threads :
          /\ AcceptedReportStep(th)
                => /\ spsa'.iter = spsa.iter + last'.read.num_games \div 2
                   /\ pc'[th] = "update_apply"
          /\ (AdvancedReportEnds(th) /\ "sf_lr" \in DOMAIN spsa)
                => EveryParameterUpdated(th)]_vars

\* No report is in progress.
NoReportInProgress == \A th \in Threads : pc[th] = "idle"

\* C28: a report is all-or-nothing: once a report call has ended, normally or
\* by an exception, on a run of either kind, iter has been advanced by its N
\* only together with the update of weight_sum, of every parameter and of the
\* estimator accumulators.
C28_ReportIsAllOrNothing ==
    NoReportInProgress
       => \A t \in Tasks : issuance[t].updated = issuance[t].applied

\* What holds of C28: on a run whose document carries the schedule-free keys
\* every ended report that advanced iter made its update, and the accumulator
\* of N has followed iter.
C28_AllOrNothingWithScheduleFreeKeys ==
    (NoReportInProgress /\ "sf_lr" \in DOMAIN spsa)
       => /\ \A t \in Tasks : issuance[t].updated = issuance[t].applied
          /\ spsa.mu2_sum_N = ToFloat(spsa.iter)
          /\ spsa.sf_weight_sum = spsa.sf_lr * spsa.iter

\* The step is the first step of a report of thread th that is rejected for
\* its signature or for N <= 0.
RejectedReportStep(th) ==
    ReportStep(th) /\ last'.outcome \in {"sig_mismatch", "N_not_positive"}

\* C29: a report rejected for its signature or for N <= 0 consumes the stored
\* perturbation of its task, and every later report for the task, whatever
\* signature it carries, is a no-op until a new request for the task succeeds.
C29_RejectedReportConsumesPerturbation ==
    [][\A th \in Threads :
          /\ RejectedReportStep(th)
                => "spsa_params" \notin DOMAIN tasks'[call[th].task]
          /\ (ReportStep(th) /\ issuance[call[th].task].rejected)
                => /\ spsa' = spsa
                   /\ tasks' = tasks
                   /\ last'.outcome = "no_spsa_params"
                   /\ last'.raised = "none"]_vars

\* C29's case: after a report was rejected for N <= 0, hence with the correct
\* signature, a later report for the task came back as a no-op.
C29_Witness ==
    /\ last.op = "update"
    /\ last.outcome = "no_spsa_params"
    /\ issuance[T].rejected
    /\ issuance[T].applied = 0

\* C30: a task holds at most one outstanding perturbation: a successful
\* request for a task that still carries one replaces the stored iter and
\* packed flips by its own, the report that follows is verified against the
\* stored (latest) issuance and applied with it, and at most one report is
\* applied for the two issuances.
C30_LatestIssuanceOnly ==
    [][\A th \in Threads :
          LET t == call[th].task
          IN  /\ (/\ RequestStep(th)
                  /\ HasStoredParams(t)
                  /\ last'.raised = "none" /\ last'.ret.task_alive)
                    => /\ tasks'[t].spsa_params =
                          [iter |-> spsa.iter,
                           packed_flips |->
                              _pack_flips([i \in DOMAIN last'.ret.w_params |->
                                              last'.ret.w_params[i].flip])]
                       /\ issuance'[t].applied = 0
              /\ (ReportStep(th) /\ HasStoredParams(t))
                    => /\ "spsa_params" \notin DOMAIN tasks'[t]
                       /\ last'.outcome = "sig_mismatch"
                             <=> last'.read.sig
                                   # crc32(tasks[t].spsa_params.packed_flips)
                       /\ pc'[th] = "update_apply"
                             => /\ call'[th].w_params =
                                      Metadata(IssuedPerturbation(
                                                   spsa, tasks[t].spsa_params))
                                /\ issuance'[t].applied = 1]_vars

\* C30's case: a request has replaced the perturbation stored on a task, not
\* yet reported, by one issued at a later iter.
C30_Witness ==
    /\ last.op = "request"
    /\ last.outcome = "issued"
    /\ last.locals # NoneVal
    /\ last.locals[1].iter < tasks[T].spsa_params.iter
    /\ ~issuance[T].reported

====
